---- MODULE Spec2Model ----
(***************************************************************************)
(* Verification model of the classroom-audio -> slide-deck-video pipeline. *)
(*                                                                         *)
(*   SpecMarkers : processMultipleMarkers driving processTimeMarker        *)
(*                 (server/services/processor.js)                          *)
(*   SpecASR     : transcribeAudio (server/services/asr.js)                *)
(*   SpecSub     : generateSubtitlesFromScript (services/videoSynth.js)    *)
(*   SpecNorm    : normalizeImagePrompt (services/llm.js)                  *)
(*   SpecScript  : generatePPTScript (services/llm.js)                     *)
(*   SpecProgress: processMultipleMarkers, overall progress                *)
(*   SpecAnalyze : analyzeKnowledgePoint (services/llm.js)                 *)
(*   SpecVideo   : synthesizeVideo (services/videoSynth.js)                *)
(*   SpecTts     : textToSpeechFile (services/tts.js)                      *)
(*   SpecPipeline: one processTimeMarker call (services/processor.js),     *)
(*                 running transcribeAudio and synthesizeVideo inside it   *)
(*                                                                         *)
(* Strings are sequences of characters.  The CJK characters the code       *)
(* tests for are written as ASCII names, each standing for one character:  *)
(* "STOP" (ideographic full stop), "EXCL", "QUES", "SEMI" (fullwidth       *)
(* exclamation mark, question mark, semicolon), "CJKCOMMA" (fullwidth      *)
(* comma) and "NL" (line feed); the five characters of the style name the  *)
(* image prompts must carry are "FENG", "KUANG", "DONG", "WU", "CHENG".    *)
(* Seconds are exact rationals [n, d].                                     *)
(***************************************************************************)
EXTENDS Integers, Sequences, FiniteSets, TLC

(***************************************************************************)
(* Bounds of the model.                                                    *)
(***************************************************************************)
MaxMarkers == 2
MaxSlides == 2
MaxChunks == 4
MaxFrags == 5
MaxPromptFrags == 3
MaxRespSlides == 2
MaxRuns == 3
MaxTotal == 8
MaxClock == 2

\* two tasks accepted by POST /api/process and processed at the same time
CTasks == {1, 2}

\* no name built yet
NoTempName == [kind |-> "none", at |-> 0, i |-> 0]

\* the ids of POST /api/process (Date.now base 36, then random digits) and
\* the ids of generateId() (random digits, then Date.now base 36): two
\* namespaces, no id of one is an id of the other
ServerIds == {[by |-> "server", n |-> k] : k \in 1..2}

MarkerIds == {[by |-> "marker", n |-> k] : k \in 1..4}

\* no task object yet for an id
NoRecord == [status |-> "none", total |-> 0, results |-> {}]

\* the marker lists tried: n distinct times, ascending or descending
MarkerLists ==
  UNION {{[k \in 1..n |-> 100 * k], [k \in 1..n |-> 100 * (n + 1 - k)]} :
           n \in 0..MaxMarkers}
TtsDuration == 3000

VARIABLES
  \* ---- processMultipleMarkers / processTimeMarker ----
  markerTimes,   \* the markerTimes argument
  ffmpegOk,      \* whether the media toolkit is installed on this host
  mi,            \* loop variable i of processMultipleMarkers
  mpc,           \* position inside processMultipleMarkers / processTimeMarker
  results,       \* the results array of processMultipleMarkers
  updates,       \* every onTaskUpdate(index, data) call, in call order
  merr,          \* error.message of the exception in flight
  slidesCount,   \* pptScript.slides.length of the current marker
  si,            \* loop variable i of the slide loop
  imgTask,       \* image sub-task of the current slide
  ttsTask,       \* audio sub-task of the current slide
  slideImages,   \* slideImages of the current marker
  slideAudios,   \* slideAudios of the current marker
  silentCalls,   \* createSilentAudio(outputPath, durationSeconds) invocations
  failedMarkers, \* history: indices i whose processTimeMarker call threw
  ttsFailed,     \* history: slide indices of this marker whose tts call failed
  taskStatus,    \* task.status of the task record in server/index.js
  taskResults,   \* task.results of the task record
  taskProgress   \* task.progress of the task record

mvars == <<markerTimes, ffmpegOk, mi, mpc, results, updates, merr, slidesCount,
           si, imgTask, ttsTask, slideImages, slideAudios, silentCalls,
           failedMarkers, ttsFailed, taskStatus, taskResults,
           taskProgress>>

VARIABLES
  \* ---- transcribeAudio ----
  asrFfmpeg,      \* what checkFFmpeg() answers
  startTime,      \* the startTime argument (seconds)
  endTime,        \* the endTime argument (seconds)
  apc,            \* position inside transcribeAudio
  segmentTasks,   \* segmentTasks
  batchI,         \* loop variable i of the batch loop
  chunkState,     \* per chunk: "pending", "inflight" or "settled"
  promiseValue,   \* per chunk: the value its processSegment promise resolved with
  allResults,     \* allResults
  completedCount, \* completedCount
  transcript,     \* the string transcribeAudio resolves with
  asrOutcome,     \* history: what happened to each chunk
  outOfOrder,     \* history: a chunk settled while a lower one was in flight
  chunkFiles,     \* positions of the chunks whose segmentFile is on disk
  asrProgress     \* every value passed to onProgress, in call order

avars == <<asrFfmpeg, startTime, endTime, apc, segmentTasks, batchI, chunkState,
           promiseValue, allResults, completedCount, transcript, asrOutcome,
           outOfOrder, chunkFiles, asrProgress>>

VARIABLES
  \* ---- generateSubtitlesFromScript ----
  script,         \* the script argument
  totalDuration,  \* the totalDuration argument (seconds)
  spc,            \* "call" before, "returned" after the call
  subtitles       \* the array returned

svars == <<script, totalDuration, spc, subtitles>>

VARIABLES
  \* ---- normalizeImagePrompt ----
  prompt,         \* the prompt argument
  npc,            \* how many times the normalizer has been applied
  once,           \* normalizeImagePrompt(prompt)
  twice           \* normalizeImagePrompt(once)

nvars == <<prompt, npc, once, twice>>

VARIABLES
  \* ---- generatePPTScript ----
  llmResponse,    \* what callLLM comes back with
  knowledgePoint, \* the knowledgePoint argument
  summary,        \* the summary argument
  gpc,            \* "call", "returned" or "threw"
  pptScript       \* the slides of the object returned

gvars == <<llmResponse, knowledgePoint, summary, gpc, pptScript>>

VARIABLES
  \* ---- synthesizeVideo ----
  vSlides, \* the slides argument
  vToolkit, \* what checkFFmpeg() answers
  vpc, \* position inside synthesizeVideo
  vi, \* loop variable i of the clip loop
  slideVideos, \* slideVideos
  videoSubtitles, \* the subtitles array (the global cue list)
  videoTime, \* currentTime
  videoFiles, \* the files written, as [path, content] records
  finalVideoPath, \* filepath of the object returned
  videoProgress, \* every value passed to onProgress, in call order
  clipDurations, \* history: result.duration of every clip rendered
  burnOutcome  \* history: how the subtitle step went

vvars == <<vSlides, vToolkit, vpc, vi, slideVideos, videoSubtitles,
           videoTime, videoFiles, finalVideoPath, videoProgress,
           clipDurations, burnOutcome>>

VARIABLES
  \* ---- processTimeMarker ----
  pMarkerTime, \* the markerTime argument (seconds)
  pAudioDuration, \* what ffprobe reports for the source audio (seconds)
  pToolkit, \* whether ffmpeg and ffprobe are installed on this host
  ppc, \* position inside processTimeMarker
  pErr, \* error.message of the exception in flight or thrown
  pProgress, \* values passed to onProgress by stages that have ended
  pDirs, \* the directories that exist
  pFiles, \* the files that exist, as [dir, file, n] records
  pWindow, \* startTime and endTime computed from the marker
  pCalls, \* history: arguments of extractAudioSegment and transcribeAudio
  pSlides, \* pptScript.slides
  psi, \* loop variable i of the slide loop
  pImg, \* image sub-task of the current slide
  pTts, \* audio sub-task of the current slide
  pSlideImages, \* slideImages
  pSlideAudios, \* slideAudios
  pResult, \* the object processTimeMarker resolves with
  pStages,  \* history: the stages entered, in order
  pCleanup  \* history: what the last cleanupTempDir call did

pvars == <<pMarkerTime, pAudioDuration, pToolkit, ppc, pErr, pProgress,
           pDirs, pFiles, pWindow, pCalls, pSlides, psi, pImg, pTts,
           pSlideImages, pSlideAudios, pResult, pStages, pCleanup>>

VARIABLES
  \* ---- textToSpeechFile ----
  ttsText, \* the text argument
  tpc, \* position inside textToSpeechFile / synthesizeLongText
  ttsSegments, \* segments of synthesizeLongText
  tsi, \* loop variable i of the segment loop
  ttsCalls, \* history: every callTTSAPI call, in call order, with its outcome
  tempFiles, \* tempFiles: the indices i of the segment files written
  ttsTotalDuration, \* totalDuration of synthesizeLongText
  ttsDisk, \* the segment and list files lying in config.tempDir
  ttsReturn  \* how the call ended, and the object returned

tvars == <<ttsText, tpc, ttsSegments, tsi, ttsCalls, tempFiles,
           ttsTotalDuration, ttsDisk, ttsReturn>>

VARIABLES
  \* ---- analyzeKnowledgePoint ----
  kResponse, \* what callLLM comes back with
  kTranscript, \* the transcript argument
  kpc, \* "call" before, "returned" after the call
  analysis  \* the object returned

kvars == <<kResponse, kTranscript, kpc, analysis>>

VARIABLES
  \* ---- processMultipleMarkers, overall progress ----
  oTotal, \* markerTimes.length
  oi, \* the loop index i
  oProg, \* the last value processTimeMarker reported for marker i
  oLast, \* the last value passed to the overall onProgress
  oPrev, \* the value passed to the overall onProgress before oLast
  opc  \* position in processMultipleMarkers

ovars == <<oTotal, oi, oProg, oLast, oPrev, opc>>

VARIABLES
  \* ---- concurrent tasks sharing config.tempDir ----
  clock, \* the value Date.now() returns
  sharedTemp, \* the files of config.tempDir, each with the task that wrote it
  cpc, \* where each of the two tasks is
  segmentFiles, \* the chunk file names each task built in transcribeAudio
  segmentsInFlight, \* the chunks of each task whose processSegment has not ended
  mergedFile, \* the merged-video name each task built in synthesizeVideo
  interference  \* the writes and unlinks that hit a file of the other task

cvars == <<clock, sharedTemp, cpc, segmentFiles, segmentsInFlight, mergedFile,
           interference>>

VARIABLES
  \* ---- the task endpoints of server/index.js ----
  tasks, \* the ids held by the tasks Map
  taskRecords, \* the task object created for each id: its status and the marker ids of its results
  outputFiles, \* the files under config.outputDir, by directory and name
  deletedMarkers, \* the marker ids in the results of a task when it was deleted
  servedAfterDelete  \* the files of deleted tasks the file endpoint has served

dvars == <<tasks, taskRecords, outputFiles, deletedMarkers,
           servedAfterDelete>>

\* every variable that is not one of processMultipleMarkers
notM == <<avars, svars, nvars, gvars, vvars, pvars, tvars, kvars, ovars, cvars, dvars>>

\* every variable that is not one of transcribeAudio
notA == <<mvars, svars, nvars, gvars, vvars, pvars, tvars, kvars, ovars, cvars, dvars>>

\* every variable that is not one of generateSubtitlesFromScript
notS == <<mvars, avars, nvars, gvars, vvars, pvars, tvars, kvars, ovars, cvars, dvars>>

\* every variable that is not one of normalizeImagePrompt
notN == <<mvars, avars, svars, gvars, vvars, pvars, tvars, kvars, ovars, cvars, dvars>>

\* every variable that is not one of generatePPTScript
notG == <<mvars, avars, svars, nvars, vvars, pvars, tvars, kvars, ovars, cvars, dvars>>

\* every variable that is not one of synthesizeVideo
notV == <<mvars, avars, svars, nvars, gvars, pvars, tvars, kvars, ovars, cvars, dvars>>

\* every variable that is not one of processTimeMarker
notP == <<mvars, avars, svars, nvars, gvars, vvars, tvars, kvars, ovars, cvars, dvars>>

\* every variable that is not one of textToSpeechFile
notT == <<mvars, avars, svars, nvars, gvars, vvars, pvars, kvars, ovars, cvars, dvars>>

\* every variable that is not one of analyzeKnowledgePoint
notK == <<mvars, avars, svars, nvars, gvars, vvars, pvars, tvars, ovars, cvars, dvars>>

\* every variable that is not one of processMultipleMarkers, overall progress
notO == <<mvars, avars, svars, nvars, gvars, vvars, pvars, tvars, kvars, cvars, dvars>>

\* every variable that is not one of concurrent tasks sharing config.tempDir
notC == <<mvars, avars, svars, nvars, gvars, vvars, pvars, tvars, kvars, ovars, dvars>>

\* every variable that is not one of the task endpoints of server/index.js
notD == <<mvars, avars, svars, nvars, gvars, vvars, pvars, tvars, kvars, ovars, cvars>>

vars == <<mvars, avars, svars, nvars, gvars, vvars, pvars, tvars, kvars, ovars, cvars, dvars>>

(***************************************************************************)
(* Helpers                                                                 *)
(***************************************************************************)
total == Len(markerTimes)

markerTime == markerTimes[mi + 1]

ImagePath(i) == [file |-> "slide.jpg", n |-> i + 1]

AudioPath(i) == [file |-> "slide_audio.mp3", n |-> i + 1]

NoTask == [state |-> "none", success |-> FALSE]

\* onUpdate?.({ step, status }) of processTimeMarker, forwarded as
\* onTaskUpdate(i, data) by processMultipleMarkers
StageUpdate(step, status) == [index |-> mi, step |-> step, status |-> status]

\* onTaskUpdate?.(i, { step: 'start', started: true, markerTime })
StartUpdate == [index |-> mi, step |-> "start", status |-> "none",
                started |-> TRUE, markerTime |-> markerTime]

\* the other components, not running
AIdle ==
  /\ asrFfmpeg = TRUE
  /\ startTime = 0
  /\ endTime = 0
  /\ apc = "idle"
  /\ segmentTasks = <<>>
  /\ batchI = 0
  /\ chunkState = <<>>
  /\ promiseValue = <<>>
  /\ allResults = <<>>
  /\ completedCount = 0
  /\ transcript = <<>>
  /\ asrOutcome = <<>>
  /\ outOfOrder = FALSE
  /\ chunkFiles = {}
  /\ asrProgress = <<>>

SIdle ==
  /\ script = <<>>
  /\ totalDuration = [n |-> 0, d |-> 1]
  /\ spc = "idle"
  /\ subtitles = <<>>

NIdle ==
  /\ prompt = <<>>
  /\ npc = "idle"
  /\ once = <<>>
  /\ twice = <<>>

GIdle ==
  /\ llmResponse = [fetch |-> "rejected", cls |-> "empty", items |-> <<>>]
  /\ knowledgePoint = <<>>
  /\ summary = <<>>
  /\ gpc = "idle"
  /\ pptScript = <<>>

VIdle ==
  /\ vSlides = <<>>
  /\ vToolkit = TRUE
  /\ vpc = "idle"
  /\ vi = 0
  /\ slideVideos = <<>>
  /\ videoSubtitles = <<>>
  /\ videoTime = [n |-> 0, d |-> 1]
  /\ videoFiles = {}
  /\ finalVideoPath = [kind |-> "none", n |-> 0]
  /\ videoProgress = <<>>
  /\ clipDurations = <<>>
  /\ burnOutcome = "none"

PIdle ==
  /\ pMarkerTime = 0
  /\ pAudioDuration = 0
  /\ pToolkit = TRUE
  /\ ppc = "idle"
  /\ pErr = "none"
  /\ pProgress = <<>>
  /\ pDirs = {}
  /\ pFiles = {}
  /\ pWindow = [startTime |-> 0, endTime |-> 0]
  /\ pCalls = <<>>
  /\ pSlides = <<>>
  /\ psi = 0
  /\ pImg = [state |-> "none", outcome |-> "none"]
  /\ pTts = [state |-> "none", outcome |-> "none"]
  /\ pSlideImages = <<>>
  /\ pSlideAudios = <<>>
  /\ pResult = [success |-> FALSE, slides |-> <<>>, video |-> [kind |-> "none", n |-> 0]]
  /\ pStages = <<>>
  /\ pCleanup = "none"

TIdle ==
  /\ ttsText = <<>>
  /\ tpc = "idle"
  /\ ttsSegments = <<>>
  /\ tsi = 0
  /\ ttsCalls = <<>>
  /\ tempFiles = <<>>
  /\ ttsTotalDuration = 0
  /\ ttsDisk = {}
  /\ ttsReturn = [status |-> "none", duration |-> 0, parts |-> <<>>]

KIdle ==
  /\ kResponse = [fetch |-> "rejected", cls |-> "prose"]
  /\ kTranscript = <<>>
  /\ kpc = "idle"
  /\ analysis = [t |-> "none"]

OIdle ==
  /\ oTotal = 0
  /\ oi = 0
  /\ oProg = 0
  /\ oLast = 0
  /\ oPrev = 0
  /\ opc = "idle"

CIdle ==
  /\ clock = 0
  /\ sharedTemp = {}
  /\ cpc = [t \in CTasks |-> "idle"]
  /\ segmentFiles = [t \in CTasks |-> <<>>]
  /\ segmentsInFlight = [t \in CTasks |-> {}]
  /\ mergedFile = [t \in CTasks |-> NoTempName]
  /\ interference = {}

DIdle ==
  /\ tasks = {}
  /\ taskRecords = [id \in ServerIds |-> NoRecord]
  /\ outputFiles = {}
  /\ deletedMarkers = {}
  /\ servedAfterDelete = {}

(***************************************************************************)
(* Initial state of a processMultipleMarkers call                          *)
(***************************************************************************)
MStart ==
  /\ markerTimes \in MarkerLists
  /\ ffmpegOk \in BOOLEAN
  /\ mi = 0
  /\ mpc = "loop"
  /\ results = <<>>
  /\ updates = <<>>
  /\ merr = "none"
  /\ slidesCount = 0
  /\ si = 0
  /\ imgTask = NoTask
  /\ ttsTask = NoTask
  /\ slideImages = <<>>
  /\ slideAudios = <<>>
  /\ silentCalls = {}
  /\ failedMarkers = {}
  /\ ttsFailed = {}
  /\ taskStatus = "processing"
  /\ taskResults = <<>>
  /\ taskProgress = 0

MIdle ==
  /\ markerTimes = <<>>
  /\ ffmpegOk = TRUE
  /\ mi = 0
  /\ mpc = "idle"
  /\ results = <<>>
  /\ updates = <<>>
  /\ merr = "none"
  /\ slidesCount = 0
  /\ si = 0
  /\ imgTask = NoTask
  /\ ttsTask = NoTask
  /\ slideImages = <<>>
  /\ slideAudios = <<>>
  /\ silentCalls = {}
  /\ failedMarkers = {}
  /\ ttsFailed = {}
  /\ taskStatus = "idle"
  /\ taskResults = <<>>
  /\ taskProgress = 0

MInit == MStart /\ AIdle /\ SIdle /\ NIdle /\ GIdle /\ VIdle /\ PIdle /\ TIdle /\ KIdle /\ OIdle /\ CIdle /\ DIdle

\* Math.round(n / d) for n >= 0, d > 0
RoundDiv(n, d) == (2 * n + d) \div (2 * d)

\* const baseProgress = Math.round((i / total) * 100)
baseProgress(i, n) == RoundDiv(100 * i, n)

\* const totalProgress = Math.round(baseProgress + (prog / total))
totalProgress(i, n, prog) == RoundDiv(baseProgress(i, n) * n + prog, n)

\* Math.round(40 + (i / totalSlides) * 30)
SlideProgress(i, totalSlides) == RoundDiv(40 * totalSlides + 30 * i, totalSlides)

\* Object.assign(target, data)
ObjectAssign(target, data) ==
  [f \in DOMAIN target \cup DOMAIN data |->
     IF f \in DOMAIN data THEN data[f] ELSE target[f]]

\* the data object of an onTaskUpdate(index, data) call: a status of "none"
\* stands for an object without a status field
UpdateData(u) ==
  LET absent == IF u.status = "none" THEN {"index", "status"} ELSE {"index"}
  IN [f \in DOMAIN u \ absent |-> u[f]]

TaskUpdateReplaces(res, u) ==
  IF u.index + 1 > Len(res)
  THEN Append(res, UpdateData(u))
  ELSE [res EXCEPT ![u.index + 1] = UpdateData(u)]

\* (index, data) => { if (!task.results[index]) task.results[index] = {};
\*                    Object.assign(task.results[index], data) }
TaskUpdate(res, u) ==
  IF u.index + 1 > Len(res)
  THEN Append(res, UpdateData(u))
  ELSE [res EXCEPT ![u.index + 1] = ObjectAssign(@, UpdateData(u))]

RECURSIVE TaskUpdates(_, _)
TaskUpdates(res, us) ==
  IF us = <<>> THEN res
  ELSE TaskUpdates(TaskUpdate(res, Head(us)), Tail(us))

\* task.progress after this step: the last value the step passed to the
\* overall onProgress, (progress, message) => { task.progress = progress }.
\* Each value is reported on reaching a position of the marker; the values
\* reported from inside transcribeAudio and synthesizeVideo lie between the
\* stage values and are left out
TaskProgressSeen ==
  CASE mpc' = "mkdir" -> baseProgress(mi, total)
    [] mpc' = "probe" -> totalProgress(mi, total, 5)
    [] mpc' = "analyze" -> totalProgress(mi, total, 20)
    [] mpc' = "script" -> totalProgress(mi, total, 30)
    [] mpc' = "slides" /\ mpc = "script" -> totalProgress(mi, total, 40)
    [] mpc' = "slide_wait" /\ mpc = "slides" ->
         totalProgress(mi, total, SlideProgress(si, slidesCount))
    [] mpc' = "video" -> totalProgress(mi, total, 80)
    [] mpc' = "loop" /\ mpc = "video" -> totalProgress(mi, total, 100)
    [] mpc' = "returned" -> 100
    [] OTHER -> taskProgress

\* the task record after the onProgress and onTaskUpdate calls of this step
TaskSees ==
  /\ taskResults' =
       TaskUpdates(taskResults, SubSeq(updates', Len(updates) + 1, Len(updates')))
  /\ taskProgress' = TaskProgressSeen
  /\ UNCHANGED taskStatus

NoThrow == UNCHANGED <<merr, failedMarkers>>

\* a statement of processTimeMarker throws: the exception is in flight
Throw(msg) ==
  /\ mpc' = "thrown"
  /\ merr' = msg
  /\ failedMarkers' = failedMarkers \cup {mi}

\* for (let i = 0; i < total; i++) { onTaskUpdate(i, {step:'start',...}); ...
\* processTimeMarker(...) is entered
BeginMarker ==
  /\ mpc = "loop"
  /\ mi < total
  /\ updates' = Append(updates, StartUpdate)
  /\ mpc' = "mkdir"
  /\ slidesCount' = 0
  /\ si' = 0
  /\ slideImages' = <<>>
  /\ slideAudios' = <<>>
  /\ ttsFailed' = {}
  /\ UNCHANGED <<markerTimes, ffmpegOk, mi, results, merr, imgTask, ttsTask,
                 silentCalls,
                 failedMarkers>>
  /\ TaskSees
  /\ UNCHANGED notM

\* [outputDir, tempDir].forEach(mkdirSync), then the first statements of the
\* try block: onUpdate({step:'asr', status:'processing'})
MakeDirs ==
  /\ mpc = "mkdir"
  /\ \E ok \in BOOLEAN :
       IF ok
       THEN /\ updates' = Append(updates, StageUpdate("asr", "processing"))
            /\ mpc' = "probe"
            /\ NoThrow
       ELSE /\ Throw("mkdir")
            /\ UNCHANGED updates
  /\ UNCHANGED <<markerTimes, ffmpegOk, mi, results, slidesCount, si, imgTask,
                 ttsTask, slideImages, slideAudios, silentCalls,
                 ttsFailed>>
  /\ TaskSees
  /\ UNCHANGED notM

\* const audioDuration = getAudioDuration(audioFilePath)  (ffprobe, rethrows)
GetAudioDuration ==
  /\ mpc = "probe"
  /\ \E ok \in BOOLEAN :
       IF ok /\ ffmpegOk
       THEN mpc' = "extract" /\ NoThrow
       ELSE Throw("ffprobe")
  /\ UNCHANGED <<markerTimes, ffmpegOk, mi, results, updates, slidesCount, si,
                 imgTask, ttsTask, slideImages, slideAudios, silentCalls,
                 ttsFailed>>
  /\ TaskSees
  /\ UNCHANGED notM

\* extractAudioSegment(audioFilePath, segmentPath, startTime, endTime - startTime)
ExtractAudioSegment ==
  /\ mpc = "extract"
  /\ \E ok \in BOOLEAN :
       IF ok /\ ffmpegOk
       THEN mpc' = "asr" /\ NoThrow
       ELSE Throw("extract")
  /\ UNCHANGED <<markerTimes, ffmpegOk, mi, results, updates, slidesCount, si,
                 imgTask, ttsTask, slideImages, slideAudios, silentCalls,
                 ttsFailed>>
  /\ TaskSees
  /\ UNCHANGED notM

\* const transcript = await transcribeAudio(...): rejects only when
\* checkFFmpeg() is false; then onUpdate({step:'asr', status:'completed'}),
\* onUpdate({step:'analyze', status:'processing'})
TranscribeAudioStep ==
  /\ mpc = "asr"
  /\ IF ffmpegOk
     THEN /\ updates' = updates \o <<StageUpdate("asr", "completed"),
                                     StageUpdate("analyze", "processing")>>
          /\ mpc' = "analyze"
          /\ NoThrow
     ELSE /\ Throw("ffmpeg")
          /\ UNCHANGED updates
  /\ UNCHANGED <<markerTimes, ffmpegOk, mi, results, slidesCount, si, imgTask,
                 ttsTask, slideImages, slideAudios, silentCalls,
                 ttsFailed>>
  /\ TaskSees
  /\ UNCHANGED notM

\* const analysis = await analyzeKnowledgePoint(transcript): never rejects
AnalyzeStep ==
  /\ mpc = "analyze"
  /\ updates' = updates \o <<StageUpdate("analyze", "completed"),
                             StageUpdate("script", "processing")>>
  /\ mpc' = "script"
  /\ UNCHANGED <<markerTimes, ffmpegOk, mi, results, merr, slidesCount, si,
                 imgTask, ttsTask, slideImages, slideAudios, silentCalls,
                 ttsFailed, failedMarkers>>
  /\ TaskSees
  /\ UNCHANGED notM

\* const pptScript = await generatePPTScript(...): never rejects; the number
\* of slides is whatever the parsed response holds
ScriptStep ==
  /\ mpc = "script"
  /\ \E n \in 0..MaxSlides :
       slidesCount' = n
  /\ updates' = updates \o <<StageUpdate("script", "completed"),
                             StageUpdate("images", "processing"),
                             StageUpdate("tts", "processing")>>
  /\ si' = 0
  /\ mpc' = "slides"
  /\ UNCHANGED <<markerTimes, ffmpegOk, mi, results, merr, imgTask, ttsTask,
                 slideImages, slideAudios, silentCalls,
                 ttsFailed, failedMarkers>>
  /\ TaskSees
  /\ UNCHANGED notM

\* for (i < slides.length): Promise.all([ image task, tts task ]) is created:
\* both sub-tasks run up to their first await
SlideDispatch ==
  /\ mpc = "slides"
  /\ si < slidesCount
  /\ imgTask' = [state |-> "inflight", success |-> FALSE]
  /\ ttsTask' = [state |-> "inflight", success |-> FALSE]
  /\ mpc' = "slide_wait"
  /\ UNCHANGED <<markerTimes, ffmpegOk, mi, results, updates, merr, slidesCount,
                 si, slideImages, slideAudios, silentCalls,
                 ttsFailed, failedMarkers>>
  /\ TaskSees
  /\ UNCHANGED notM

\* generateImageToFile settles; on rejection createPlaceholderImage (which
\* catches everything itself) supplies the path
ImageSettle ==
  /\ mpc = "slide_wait"
  /\ imgTask.state = "inflight"
  /\ \E ok \in BOOLEAN :
       imgTask' = [state |-> "settled", success |-> ok]
  /\ UNCHANGED <<markerTimes, ffmpegOk, mi, mpc, results, updates, merr,
                 slidesCount, si, ttsTask, slideImages, slideAudios,
                 silentCalls,
                 ttsFailed, failedMarkers>>
  /\ TaskSees
  /\ UNCHANGED notM

\* createSilentAudio(outputPath, durationSeconds): both the try and the catch
\* branch return outputPath
createSilentAudio(outputPath, durationSeconds) == outputPath

\* textToSpeechFile settles; on rejection the catch block calls
\* createSilentAudio(audioPath, 5)
AudioSettle ==
  /\ mpc = "slide_wait"
  /\ ttsTask.state = "inflight"
  /\ \E ok \in BOOLEAN :
       /\ ttsTask' = [state |-> "settled", success |-> ok]
       /\ ttsFailed' = IF ok THEN ttsFailed ELSE ttsFailed \cup {si}
       /\ silentCalls' = IF ok THEN silentCalls
                         ELSE silentCalls \cup
                                {[path |-> AudioPath(si), seconds |-> 5]}
  /\ UNCHANGED <<markerTimes, ffmpegOk, mi, mpc, results, updates, merr,
                 slidesCount, si, imgTask, slideImages, slideAudios,
                 failedMarkers>>
  /\ TaskSees
  /\ UNCHANGED notM

\* the value the image sub-task resolves with
ImageResult(i, ok) ==
  IF ok
  THEN [index |-> i, path |-> ImagePath(i), success |-> TRUE]
  ELSE [index |-> i, path |-> ImagePath(i), success |-> FALSE,
        error |-> "image"]

SilentAudioResultBroken(i) ==
  [index |-> i, path |-> createSilentAudio(AudioPath(i), 5), duration |-> 5,
   success |-> FALSE, error |-> "tts"]

\* the value the tts sub-task resolves with after textToSpeechFile rejected
SilentAudioResult(i) ==
  [index |-> i, path |-> createSilentAudio(AudioPath(i), 5), duration |-> 5000,
   success |-> FALSE, error |-> "tts"]

\* the value the tts sub-task resolves with
AudioResult(i, ok) ==
  IF ok
  THEN [index |-> i, path |-> AudioPath(i), duration |-> TtsDuration,
        success |-> TRUE]
  ELSE SilentAudioResult(i)

\* Promise.all resolved: push both results; delay unless this was the last
\* slide
SlideJoin ==
  /\ mpc = "slide_wait"
  /\ imgTask.state = "settled"
  /\ ttsTask.state = "settled"
  /\ slideImages' = Append(slideImages, ImageResult(si, imgTask.success))
  /\ slideAudios' = Append(slideAudios, AudioResult(si, ttsTask.success))
  /\ imgTask' = NoTask
  /\ ttsTask' = NoTask
  /\ IF si < slidesCount - 1
     THEN mpc' = "delay" /\ UNCHANGED si
     ELSE mpc' = "slides" /\ si' = si + 1
  /\ UNCHANGED <<markerTimes, ffmpegOk, mi, results, updates, merr, slidesCount,
                 silentCalls,
                 ttsFailed, failedMarkers>>
  /\ TaskSees
  /\ UNCHANGED notM

\* await new Promise(r => setTimeout(r, 500))
DelayElapsed ==
  /\ mpc = "delay"
  /\ si' = si + 1
  /\ mpc' = "slides"
  /\ UNCHANGED <<markerTimes, ffmpegOk, mi, results, updates, merr, slidesCount,
                 imgTask, ttsTask, slideImages, slideAudios, silentCalls,
                 ttsFailed, failedMarkers>>
  /\ TaskSees
  /\ UNCHANGED notM

\* the slide loop ended: onUpdate images/tts completed, video processing
SlidesDone ==
  /\ mpc = "slides"
  /\ si >= slidesCount
  /\ updates' = updates \o <<StageUpdate("images", "completed"),
                             StageUpdate("tts", "completed"),
                             StageUpdate("video", "processing")>>
  /\ mpc' = "video"
  /\ UNCHANGED <<markerTimes, ffmpegOk, mi, results, merr, slidesCount, si,
                 imgTask, ttsTask, slideImages, slideAudios, silentCalls,
                 ttsFailed, failedMarkers>>
  /\ TaskSees
  /\ UNCHANGED notM

\* the result object built by processTimeMarker, spread into fullResult
FullResult(videoPath) ==
  [markerTime |-> markerTime,
   success |-> TRUE,
   slides |-> [k \in 1..slidesCount |->
                 [index |-> k,
                  imagePath |-> slideImages[k].path,
                  audioPath |-> slideAudios[k].path,
                  audioDuration |-> slideAudios[k].duration]],
   video |-> videoPath]

\* if (checkFFmpeg()) videoResult = await synthesizeVideo(...) else
\* { filepath: null }; onUpdate video completed; build result; back in
\* processMultipleMarkers: results.push(fullResult);
\* onTaskUpdate(i, {step:'completed', ...fullResult})
VideoStep ==
  /\ mpc = "video"
  /\ \E ok \in BOOLEAN :
       IF ffmpegOk /\ ~ok
       THEN /\ Throw("video")
            /\ UNCHANGED <<updates, results, mi>>
       ELSE LET videoPath == IF ffmpegOk THEN "final_video.mp4" ELSE "null"
                fullResult == FullResult(videoPath)
            IN /\ results' = Append(results, fullResult)
               /\ updates' = updates \o
                    <<StageUpdate("video", "completed"),
                      [index |-> mi, step |-> "completed", status |-> "none",
                       markerTime |-> markerTime, success |-> TRUE]>>
               /\ mi' = mi + 1
               /\ mpc' = "loop"
               /\ NoThrow
  /\ UNCHANGED <<markerTimes, ffmpegOk, slidesCount, si, imgTask, ttsTask,
                 slideImages, slideAudios, silentCalls,
                 ttsFailed>>
  /\ TaskSees
  /\ UNCHANGED notM

MarkerCatchRethrows ==
  /\ mpc = "thrown"
  /\ mpc' = "rejected"
  /\ UNCHANGED <<markerTimes, ffmpegOk, mi, results, updates, merr,
                 slidesCount, si, imgTask, ttsTask, slideImages, slideAudios,
                 silentCalls,
                 ttsFailed, failedMarkers>>
  /\ TaskSees
  /\ UNCHANGED notM

MarkerCatchSilent ==
  /\ mpc = "thrown"
  /\ results' = Append(results, [markerTime |-> markerTime, success |-> FALSE,
                                 error |-> merr])
  /\ mi' = mi + 1
  /\ mpc' = "loop"
  /\ merr' = "none"
  /\ UNCHANGED <<markerTimes, ffmpegOk, updates, slidesCount, si, imgTask,
                 ttsTask, slideImages, slideAudios, silentCalls, ttsFailed,
                 failedMarkers>>
  /\ TaskSees
  /\ UNCHANGED notM

\* a catch block that never completes: the loop stays at the failed marker
MarkerCatchHangs ==
  /\ mpc = "thrown"
  /\ UNCHANGED vars

\* catch (error) of processMultipleMarkers: results.push(failedResult);
\* onTaskUpdate(i, {step:'failed', ...failedResult}); the loop goes on
MarkerCatch ==
  /\ mpc = "thrown"
  /\ LET failedResult == [markerTime |-> markerTime, success |-> FALSE,
                          error |-> merr]
     IN /\ results' = Append(results, failedResult)
        /\ updates' = Append(updates,
             [index |-> mi, step |-> "failed", status |-> "none",
              markerTime |-> markerTime, success |-> FALSE, error |-> merr])
  /\ mi' = mi + 1
  /\ mpc' = "loop"
  /\ merr' = "none"
  /\ UNCHANGED <<markerTimes, ffmpegOk, slidesCount, si, imgTask, ttsTask,
                 slideImages, slideAudios, silentCalls,
                 ttsFailed, failedMarkers>>
  /\ TaskSees
  /\ UNCHANGED notM

\* the loop ended: onProgress(100, ...); return results
ReturnResults ==
  /\ mpc = "loop"
  /\ mi >= total
  /\ mpc' = "returned"
  /\ UNCHANGED <<markerTimes, ffmpegOk, mi, results, updates, merr, slidesCount,
                 si, imgTask, ttsTask, slideImages, slideAudios, silentCalls,
                 ttsFailed, failedMarkers>>
  /\ TaskSees
  /\ UNCHANGED notM

BackgroundSettleFailsOnAnyFailure ==
  /\ mpc \in {"returned", "rejected"}
  /\ taskStatus = "processing"
  /\ IF mpc = "returned" /\ failedMarkers = {}
     THEN /\ taskStatus' = "completed"
          /\ taskProgress' = 100
          /\ taskResults' = results
     ELSE /\ taskStatus' = "failed"
          /\ UNCHANGED <<taskResults, taskProgress>>
  /\ UNCHANGED <<markerTimes, ffmpegOk, mi, mpc, results, updates, merr,
                 slidesCount, si, imgTask, ttsTask, slideImages, slideAudios,
                 silentCalls, ttsFailed, failedMarkers>>
  /\ UNCHANGED notM

\* processAudioInBackground: await processMultipleMarkers(...) settles.
\* Resolved: task.status = 'completed'; task.results = results.
\* Rejected: task.status = 'failed'
BackgroundSettle ==
  /\ mpc \in {"returned", "rejected"}
  /\ taskStatus = "processing"
  /\ IF mpc = "returned"
     THEN /\ taskStatus' = "completed"
          /\ taskProgress' = 100
          /\ taskResults' = results
     ELSE /\ taskStatus' = "failed"
          /\ UNCHANGED <<taskResults, taskProgress>>
  /\ UNCHANGED <<markerTimes, ffmpegOk, mi, mpc, results, updates, merr,
                 slidesCount, si, imgTask, ttsTask, slideImages, slideAudios,
                 silentCalls, ttsFailed, failedMarkers>>
  /\ UNCHANGED notM

MNext ==
  \/ BeginMarker
  \/ MakeDirs
  \/ GetAudioDuration
  \/ ExtractAudioSegment
  \/ TranscribeAudioStep
  \/ AnalyzeStep
  \/ ScriptStep
  \/ SlideDispatch
  \/ ImageSettle
  \/ AudioSettle
  \/ SlideJoin
  \/ DelayElapsed
  \/ SlidesDone
  \/ VideoStep
  \/ MarkerCatch
  \/ ReturnResults
  \/ BackgroundSettle

SpecMarkers == MInit /\ [][MNext]_vars

\* Every await of the marker loop settles: each step of the loop that can be
\* taken. The order of the marker times plays no part in the control flow of
\* the loop, so the ascending lists stand for both orders here
MInitLive == MInit /\ \A k \in DOMAIN markerTimes : markerTimes[k] = 100 * k

SpecMarkersLive == MInitLive /\ [][MNext]_vars /\ WF_vars(MNext)

(***************************************************************************)
(* transcribeAudio (server/services/asr.js)                                *)
(***************************************************************************)
segmentDuration == 60

CONCURRENT_LIMIT == 3

Min(a, b) == IF a <= b THEN a ELSE b

Max(a, b) == IF a >= b THEN a ELSE b

\* Math.ceil(a / b) for a >= 0, b > 0
CeilDiv(a, b) == (a + b - 1) \div b

\* Math.round((completedCount / segmentCount) * 80) for the counts
\* from + 1 .. from + n, in that order
ChunkProgress(from, n, segmentCount) ==
  [k \in 1..n |-> RoundDiv((from + k) * 80, segmentCount)]

\* the window lengths tried
DurationSet == {d \in 0..(segmentDuration * MaxChunks) : d % 45 = 0}

\* texts the speech-to-text boundary recognises (strings are sequences of
\* characters)
AsrTexts == {<<>>, <<"a">>, <<"b">>}

\* what one call of the speech-to-text boundary can come back with
AsrResponses ==
  {[fetch |-> "rejected", ok |-> FALSE, statusCode |-> "", text |-> <<>>],
   [fetch |-> "resolved", ok |-> FALSE, statusCode |-> "", text |-> <<>>],
   [fetch |-> "resolved", ok |-> TRUE, statusCode |-> "20000003",
    text |-> <<>>],
   [fetch |-> "resolved", ok |-> TRUE, statusCode |-> "45000001",
    text |-> <<>>]}
  \cup {[fetch |-> "resolved", ok |-> TRUE, statusCode |-> "20000000",
         text |-> t] : t \in AsrTexts}

\* callASRAPI: TRUE when the call throws
callASRAPIThrows(r) ==
  \/ r.fetch = "rejected"
  \/ ~r.ok
  \/ r.statusCode \notin {"20000003", "20000000"}

\* callASRAPI: the text returned when it does not throw
callASRAPI(r) ==
  IF r.statusCode = "20000003" THEN <<>> ELSE r.text

ProcessSegmentCatchZeroBased(index) ==
  [index |-> index,
   text |-> <<"[", "segment", " ", ToString(index), " ", "failed", "]">>,
   success |-> FALSE]

\* processSegment, catch branch: the placeholder result, the template
\* `[<segment> ${index + 1} <recognition failed>]` with its two CJK words
\* written as the tokens "segment" and "failed"
ProcessSegmentCatch(index) ==
  [index |-> index,
   text |-> <<"[", "segment", " ", ToString(index + 1), " ", "failed", "]">>,
   success |-> FALSE]

\* processSegment, try branch: the result after callASRAPI returned
ProcessSegmentOk(index, text) ==
  [index |-> index, text |-> text, success |-> TRUE]

AStart ==
  /\ asrFfmpeg \in BOOLEAN
  /\ startTime \in {0, 30}
  /\ \E d \in DurationSet : endTime = startTime + d
  /\ apc = "start"
  /\ segmentTasks = <<>>
  /\ batchI = 0
  /\ chunkState = <<>>
  /\ promiseValue = <<>>
  /\ allResults = <<>>
  /\ completedCount = 0
  /\ transcript = <<>>
  /\ asrOutcome = <<>>
  /\ outOfOrder = FALSE
  /\ chunkFiles = {}
  /\ asrProgress = <<>>

AInit == AStart /\ MIdle /\ SIdle /\ NIdle /\ GIdle /\ VIdle /\ PIdle /\ TIdle /\ KIdle /\ OIdle /\ CIdle /\ DIdle

segmentLengthUnclipped(segmentStart) == segmentDuration

\* const segmentLength = Math.min(segmentDuration, endTime - segmentStart)
segmentLength(segmentStart) == Min(segmentDuration, endTime - segmentStart)

\* if (!checkFFmpeg()) throw ...; build segmentTasks
TranscribeStart ==
  /\ apc = "start"
  /\ IF ~asrFfmpeg
     THEN /\ apc' = "threw"
          /\ UNCHANGED <<segmentTasks, chunkState, promiseValue, asrOutcome>>
     ELSE LET duration == endTime - startTime
              segmentCount == CeilDiv(duration, segmentDuration)
          IN /\ segmentTasks' =
                  [j \in 1..segmentCount |->
                     LET segmentStart == startTime + (j - 1) * segmentDuration
                     IN [index |-> j - 1,
                         segmentStart |-> segmentStart,
                         segmentLength |-> segmentLength(segmentStart)]]
             /\ chunkState' = [j \in 1..segmentCount |-> "pending"]
             /\ promiseValue' =
                  [j \in 1..segmentCount |->
                     [index |-> j - 1, text |-> <<>>, success |-> FALSE]]
             /\ asrOutcome' = [j \in 1..segmentCount |-> "none"]
             /\ apc' = "batch"
  /\ UNCHANGED <<asrFfmpeg, startTime, endTime, batchI, allResults,
                 completedCount, transcript, outOfOrder, chunkFiles,
                 asrProgress>>
  /\ UNCHANGED notA

processSegmentFinallyKeeps(files, j) == files

\* processSegment, finally block: if (fs.existsSync(segmentFile))
\* fs.unlinkSync(segmentFile), on the set of chunk files on disk
processSegmentFinally(files, j) ==
  IF j \in files THEN files \ {j} ELSE files

BatchAllRemaining(i) ==
  {j \in 1..Len(segmentTasks) : i <= j - 1}

\* segmentTasks.slice(i, i + CONCURRENT_LIMIT), as the set of positions
Batch(i) ==
  {j \in 1..Len(segmentTasks) : i <= j - 1 /\ j - 1 < i + CONCURRENT_LIMIT}

\* batch.map(processSegment): every processSegment of the batch runs up to
\* its await; a chunk whose extractAudioSegment / fileToBase64 throws is
\* settled by the catch block at once, the others have a request in flight
BatchDispatch ==
  /\ apc = "batch"
  /\ batchI < Len(segmentTasks)
  /\ \E F \in SUBSET Batch(batchI) :
       \* W: the failing chunks whose segmentFile was written before the
       \* failure (fileToBase64 threw, or ffmpeg died after creating it)
       /\ \E W \in SUBSET F :
            LET written == chunkFiles \cup W \cup (Batch(batchI) \ F)
            IN chunkFiles' =
                 {f \in written :
                    f \notin F \/ f \in processSegmentFinally(written, f)}
       /\ chunkState' = [j \in 1..Len(segmentTasks) |->
                           IF j \in F THEN "settled"
                           ELSE IF j \in Batch(batchI) THEN "inflight"
                           ELSE chunkState[j]]
       /\ promiseValue' = [j \in 1..Len(segmentTasks) |->
                             IF j \in F THEN ProcessSegmentCatch(j - 1)
                             ELSE promiseValue[j]]
       /\ asrOutcome' = [j \in 1..Len(segmentTasks) |->
                           IF j \in F THEN "extract_failed" ELSE asrOutcome[j]]
       /\ completedCount' = completedCount + Cardinality(F)
       /\ asrProgress' = asrProgress \o
            ChunkProgress(completedCount, Cardinality(F), Len(segmentTasks))
  /\ apc' = "await"
  /\ UNCHANGED <<asrFfmpeg, startTime, endTime, segmentTasks, batchI,
                 allResults, transcript, outOfOrder>>
  /\ UNCHANGED notA

\* the request of one chunk settles: try branch or catch branch of
\* processSegment
ChunkSettle ==
  /\ apc = "await"
  /\ \E j \in 1..Len(segmentTasks) :
       /\ chunkState[j] = "inflight"
       /\ \E r \in AsrResponses :
            /\ promiseValue' =
                 [promiseValue EXCEPT
                    ![j] = IF callASRAPIThrows(r)
                           THEN ProcessSegmentCatch(j - 1)
                           ELSE ProcessSegmentOk(j - 1, callASRAPI(r))]
            /\ asrOutcome' =
                 [asrOutcome EXCEPT
                    ![j] = IF callASRAPIThrows(r) THEN "call_failed"
                           ELSE IF r.statusCode = "20000003" THEN "silent"
                           ELSE "text"]
       /\ chunkState' = [chunkState EXCEPT ![j] = "settled"]
       /\ chunkFiles' = processSegmentFinally(chunkFiles, j)
       /\ outOfOrder' = (outOfOrder \/
                           \E q \in 1..(j - 1) : chunkState[q] = "inflight")
  /\ completedCount' = completedCount + 1
  /\ asrProgress' = asrProgress \o
       ChunkProgress(completedCount, 1, Len(segmentTasks))
  /\ UNCHANGED <<asrFfmpeg, startTime, endTime, apc, segmentTasks, batchI,
                 allResults, transcript>>
  /\ UNCHANGED notA

\* the sequence of the elements of the positions S of f, in position order
RECURSIVE SeqOfPositions(_, _)
SeqOfPositions(f, S) ==
  IF S = {} THEN <<>>
  ELSE LET j == CHOOSE x \in S : \A y \in S : x <= y
       IN <<f[j]>> \o SeqOfPositions(f, S \ {j})

\* await Promise.all(...) resolved: allResults.push(...batchResults); i += 3
BatchJoin ==
  /\ apc = "await"
  /\ \A j \in Batch(batchI) : chunkState[j] = "settled"
  /\ allResults' = allResults \o SeqOfPositions(promiseValue, Batch(batchI))
  /\ batchI' = batchI + CONCURRENT_LIMIT
  /\ apc' = "batch"
  /\ UNCHANGED <<asrFfmpeg, startTime, endTime, segmentTasks, chunkState,
                 promiseValue, completedCount, transcript, asrOutcome,
                 outOfOrder, chunkFiles, asrProgress>>
  /\ UNCHANGED notA

\* insert r into the sorted sequence s, after the elements that do not
\* compare greater (Array.prototype.sort is stable)
RECURSIVE InsertDescending(_, _)
InsertDescending(s, r) ==
  IF s = <<>> THEN <<r>>
  ELSE IF Head(s).index < r.index THEN <<r>> \o s
  ELSE <<Head(s)>> \o InsertDescending(Tail(s), r)

RECURSIVE InsertByIndex(_, _)
InsertByIndex(s, r) ==
  IF s = <<>> THEN <<r>>
  ELSE IF Head(s).index > r.index THEN <<r>> \o s
  ELSE <<Head(s)>> \o InsertByIndex(Tail(s), r)

RECURSIVE SortDescending(_)
SortDescending(s) ==
  IF s = <<>> THEN <<>>
  ELSE InsertDescending(SortDescending(SubSeq(s, 1, Len(s) - 1)), s[Len(s)])

\* allResults.sort((a, b) => a.index - b.index)
RECURSIVE SortByIndex(_)
SortByIndex(s) ==
  IF s = <<>> THEN <<>>
  ELSE InsertByIndex(SortByIndex(SubSeq(s, 1, Len(s) - 1)), s[Len(s)])

\* results.join('\n')
RECURSIVE JoinNewline(_)
JoinNewline(texts) ==
  IF texts = <<>> THEN <<>>
  ELSE IF Len(texts) = 1 THEN texts[1]
  ELSE texts[1] \o <<"\n">> \o JoinNewline(Tail(texts))

\* the batch loop ended: sort, map(r => r.text), join,
\* onProgress(100, ...), return
TranscribeFinish ==
  /\ apc = "batch"
  /\ batchI >= Len(segmentTasks)
  /\ LET sorted == SortByIndex(allResults)
         texts == [j \in 1..Len(sorted) |-> sorted[j].text]
     IN transcript' = JoinNewline(texts)
  /\ apc' = "done"
  /\ asrProgress' = Append(asrProgress, 100)
  /\ UNCHANGED <<asrFfmpeg, startTime, endTime, segmentTasks, batchI,
                 chunkState, promiseValue, allResults, completedCount,
                 asrOutcome, outOfOrder, chunkFiles>>
  /\ UNCHANGED notA

ANext ==
  \/ TranscribeStart
  \/ BatchDispatch
  \/ ChunkSettle
  \/ BatchJoin
  \/ TranscribeFinish

SpecASR == AInit /\ [][ANext]_vars

(***************************************************************************)
(* Exact rational arithmetic for seconds                                   *)
(***************************************************************************)
Abs(x) == IF x < 0 THEN -x ELSE x

RECURSIVE GCD(_, _)
GCD(a, b) == IF b = 0 THEN a ELSE GCD(b, a % b)

\* the fraction n/d (d > 0) in lowest terms
R(n, d) ==
  LET g == GCD(Abs(n), d)
  IN [n |-> n \div g, d |-> d \div g]

RAdd(a, b) == R(a.n * b.d + b.n * a.d, a.d * b.d)

RSub(a, b) == R(a.n * b.d - b.n * a.d, a.d * b.d)

\* a * (p / q) for integers p and q > 0
RScale(a, p, q) == R(a.n * p, a.d * q)

RLe(a, b) == a.n * b.d <= b.n * a.d

RLt(a, b) == a.n * b.d < b.n * a.d

RMax(a, b) == IF RLe(b, a) THEN a ELSE b

RMin(a, b) == IF RLe(a, b) THEN a ELSE b

(***************************************************************************)
(* generateSubtitlesFromScript and splitByComma (services/videoSynth.js)   *)
(***************************************************************************)
\* the characters of /[STOP EXCL QUES SEMI \n]/
SentenceSeps == {"STOP", "EXCL", "QUES", "SEMI", "NL"}

\* the characters of /[CJKCOMMA ,]/
CommaChars == {"CJKCOMMA", ","}

\* the characters String.prototype.trim removes, among those used here
Whitespace == {" ", "NL"}

RECURSIVE TrimLeft(_)
TrimLeft(str) ==
  IF str # <<>> /\ Head(str) \in Whitespace THEN TrimLeft(Tail(str)) ELSE str

RECURSIVE TrimRight(_)
TrimRight(str) ==
  IF str # <<>> /\ str[Len(str)] \in Whitespace
  THEN TrimRight(SubSeq(str, 1, Len(str) - 1))
  ELSE str

\* String.prototype.trim
Trim(str) == TrimRight(TrimLeft(str))

\* str.split(/([seps])/): the runs between separators (possibly empty) with
\* every separator kept as a part of its own
RECURSIVE SplitFrom(_, _, _, _, _)
SplitFrom(str, seps, i, cur, acc) ==
  IF i > Len(str) THEN Append(acc, cur)
  ELSE IF str[i] \in seps
       THEN SplitFrom(str, seps, i + 1, <<>>, acc \o <<cur, <<str[i]>>>>)
       ELSE SplitFrom(str, seps, i + 1, Append(cur, str[i]), acc)

SplitKeep(str, seps) == SplitFrom(str, seps, 1, <<>>, <<>>)

\* .filter(s => s.trim().length > 0)
NonBlank(parts) == SelectSeq(parts, LAMBDA part : Len(Trim(part)) > 0)

\* regex.test(part): part holds a character of the class
Matches(part, class) == \E i \in 1..Len(part) : part[i] \in class

\* the loop over sentences building segments, and the flush after it
RECURSIVE BuildSegments(_, _, _, _)
BuildSegments(sentences, i, currentSegment, segments) ==
  IF i > Len(sentences)
  THEN IF Trim(currentSegment) # <<>>
       THEN Append(segments, Trim(currentSegment))
       ELSE segments
  ELSE LET part == sentences[i] IN
       IF Matches(part, SentenceSeps)
       THEN IF currentSegment # <<>>
            THEN BuildSegments(sentences, i + 1, <<>>,
                   Append(segments,
                          Trim(currentSegment) \o
                            (IF part = <<"NL">> THEN <<>> ELSE part)))
            ELSE BuildSegments(sentences, i + 1, currentSegment, segments)
       ELSE BuildSegments(sentences, i + 1, currentSegment \o part, segments)

Segments(text) ==
  BuildSegments(NonBlank(SplitKeep(text, SentenceSeps)), 1, <<>>, <<>>)

\* text.substring(0, maxLength)
Substring0(text, maxLength) == SubSeq(text, 1, Min(Len(text), maxLength))

\* the loop of splitByComma and the flush after it
RECURSIVE CommaLoop(_, _, _, _, _)
CommaLoop(parts, i, current, result, maxLength) ==
  IF i > Len(parts)
  THEN IF Trim(current) # <<>> THEN Append(result, Trim(current)) ELSE result
  ELSE LET part == parts[i] IN
       IF Matches(part, CommaChars)
       THEN IF 10 * (Len(current) + Len(part)) >= 7 * maxLength
            THEN CommaLoop(parts, i + 1, <<>>,
                           Append(result, Trim(current \o part)), maxLength)
            ELSE CommaLoop(parts, i + 1, current \o part, result, maxLength)
       ELSE IF Len(current) + Len(part) > maxLength
            THEN CommaLoop(parts, i + 1, part,
                           IF Trim(current) # <<>>
                           THEN Append(result, Trim(current))
                           ELSE result,
                           maxLength)
            ELSE CommaLoop(parts, i + 1, current \o part, result, maxLength)

splitByComma(text, maxLength) ==
  LET result == CommaLoop(NonBlank(SplitKeep(text, CommaChars)), 1, <<>>,
                          <<>>, maxLength)
  IN IF Len(result) > 0 THEN result
     ELSE <<Substring0(text, maxLength) \o <<".", ".", ".">>>>

RECURSIVE SumLen(_)
SumLen(segments) ==
  IF segments = <<>> THEN 0 ELSE Len(Head(segments)) + SumLen(Tail(segments))

SubPartCuesUnclamped(segment, index, currentTime, dur) ==
  LET subParts == splitByComma(segment, 25)
      subDuration == RScale(dur, 1, Len(subParts))
  IN [k \in 1..Len(subParts) |->
        [text |-> subParts[k],
         start |-> RAdd(currentTime, RScale(subDuration, k - 1, 1)),
         duration |-> subDuration,
         segment |-> index,
         parts |-> Len(subParts)]]

SubPartCuesOffByOne(segment, index, currentTime, dur) ==
  LET subParts == splitByComma(segment, 25)
      subDuration == RScale(dur, 1, Len(subParts))
  IN [k \in 1..Len(subParts) |->
        [text |-> subParts[k],
         start |-> RAdd(currentTime, RScale(subDuration, k, 1)),
         duration |-> RMax(R(1, 1), subDuration),
         segment |-> index,
         parts |-> Len(subParts)]]

\* the cues pushed for a segment longer than 25 characters; the fields
\* segment (index of the segment) and parts (number of cues of the segment)
\* are history, not part of the object
SubPartCues(segment, index, currentTime, dur) ==
  LET subParts == splitByComma(segment, 25)
      subDuration == RScale(dur, 1, Len(subParts))
  IN [k \in 1..Len(subParts) |->
        [text |-> subParts[k],
         start |-> RAdd(currentTime, RScale(subDuration, k - 1, 1)),
         duration |-> RMax(R(1, 1), subDuration),
         segment |-> index,
         parts |-> Len(subParts)]]

SegmentDurationUnfloored(segments, index, totalDur, totalChars, currentTime) ==
  LET clamped == RMax(R(3, 2),
                      RMin(RScale(totalDur, Len(segments[index + 1]), totalChars),
                           R(8, 1)))
  IN IF index = Len(segments) - 1
     THEN RSub(totalDur, currentTime)
     ELSE clamped

\* the duration given to segment index (0-based): proportional, clamped to
\* [1.5, 8]; the last segment takes the rest, at least 1.5
SegmentDuration(segments, index, totalDur, totalChars, currentTime) ==
  LET clamped == RMax(R(3, 2),
                      RMin(RScale(totalDur, Len(segments[index + 1]), totalChars),
                           R(8, 1)))
  IN IF index = Len(segments) - 1
     THEN RMax(R(3, 2), RSub(totalDur, currentTime))
     ELSE clamped

\* segments.forEach((segment, index) => ...)
RECURSIVE CueLoop(_, _, _, _, _, _)
CueLoop(segments, index, totalDur, totalChars, currentTime, acc) ==
  IF index >= Len(segments) THEN acc
  ELSE LET segment == segments[index + 1]
           dur == SegmentDuration(segments, index, totalDur, totalChars,
                                  currentTime)
           cues == IF Len(segment) > 25
                   THEN SubPartCues(segment, index, currentTime, dur)
                   ELSE <<[text |-> segment, start |-> currentTime,
                           duration |-> dur, segment |-> index,
                           parts |-> 1]>>
       IN CueLoop(segments, index + 1, totalDur, totalChars,
                  RAdd(currentTime, dur), acc \o cues)

generateSubtitlesFromScript(text, totalDur) ==
  IF text = <<>> \/ RLe(totalDur, R(0, 1)) THEN <<>>
  ELSE LET segments == Segments(text)
           totalChars == SumLen(segments)
       IN IF Len(segments) = 0 \/ totalChars = 0 THEN <<>>
          ELSE CueLoop(segments, 0, totalDur, totalChars, R(0, 1), <<>>)

\* the pieces scripts are put together from
Fragments ==
  {<<"x">>, [k \in 1..13 |-> "x"], <<"STOP">>, <<",">>, <<"NL">>}

RECURSIVE Flatten(_)
Flatten(ss) == IF ss = <<>> THEN <<>> ELSE Head(ss) \o Flatten(Tail(ss))

Scripts ==
  {Flatten(fs) : fs \in UNION {[1..k -> Fragments] : k \in 0..MaxFrags}}

\* the total durations tried (seconds)
TotalDurations == {R(0, 1), R(1, 1), R(3, 1), R(10, 1), R(40, 1)}

SStart ==
  /\ script \in Scripts
  /\ totalDuration \in TotalDurations
  /\ spc = "call"
  /\ subtitles = <<>>

SInit == SStart /\ MIdle /\ AIdle /\ NIdle /\ GIdle /\ VIdle /\ PIdle /\ TIdle /\ KIdle /\ OIdle /\ CIdle /\ DIdle

GenerateSubtitles ==
  /\ spc = "call"
  /\ subtitles' = generateSubtitlesFromScript(script, totalDuration)
  /\ spc' = "returned"
  /\ UNCHANGED <<script, totalDuration>>
  /\ UNCHANGED notS

SNext == GenerateSubtitles

SpecSub == SInit /\ [][SNext]_vars

(***************************************************************************)
(* normalizeImagePrompt (services/llm.js)                                  *)
(***************************************************************************)
\* the style name, five CJK characters
StyleNameCJK == <<"FENG", "KUANG", "DONG", "WU", "CHENG">>

\* 'zootopia'
StyleNameLatin == <<"z", "o", "o", "t", "o", "p", "i", "a">>

\* String.prototype.toLowerCase on the characters used here
LowerChar(c) ==
  CASE c = "Z" -> "z"
    [] c = "O" -> "o"
    [] c = "T" -> "t"
    [] c = "P" -> "p"
    [] c = "I" -> "i"
    [] c = "A" -> "a"
    [] OTHER -> c

toLowerCase(str) == [i \in 1..Len(str) |-> LowerChar(str[i])]

\* String.prototype.includes
Includes(str, sub) ==
  \E i \in 0..(Len(str) - Len(sub)) : SubSeq(str, i + 1, i + Len(sub)) = sub

\* the text returned for a falsy prompt: the style name, "FGCT" for the four
\* characters after it, a fullwidth comma, "REST" for the remaining text
\* (no Latin letter, no further occurrence of the style name)
DefaultImagePrompt == StyleNameCJK \o <<"FGCT", "CJKCOMMA", "REST">>

\* the prefix of the template `<style name><FGCT><comma>${prompt}`
StylePrefix == StyleNameCJK \o <<"FGCT", "CJKCOMMA">>

normalizeImagePromptLatinOnly(p) ==
  IF p = <<>> THEN DefaultImagePrompt
  ELSE IF ~Includes(toLowerCase(p), StyleNameLatin) THEN StylePrefix \o p
  ELSE p

normalizeImagePrompt(p) ==
  IF p = <<>> THEN DefaultImagePrompt
  ELSE IF ~Includes(p, StyleNameCJK)
          /\ ~Includes(toLowerCase(p), StyleNameLatin)
       THEN StylePrefix \o p
       ELSE p

\* the pieces prompts are put together from
PromptFragments ==
  {StyleNameCJK, StyleNameLatin,
   <<"Z", "o", "o", "T", "O", "P", "I", "A">>,
   <<"z", "o", "o">>, <<"t", "o", "p", "i", "a">>,
   <<"FENG", "KUANG">>, <<"DONG", "WU", "CHENG">>, <<"x">>}

Prompts ==
  {Flatten(fs) :
     fs \in UNION {[1..k -> PromptFragments] : k \in 0..MaxPromptFrags}}

NStart ==
  /\ prompt \in Prompts
  /\ npc = "zero"
  /\ once = <<>>
  /\ twice = <<>>

NInit == NStart /\ MIdle /\ AIdle /\ SIdle /\ GIdle /\ VIdle /\ PIdle /\ TIdle /\ KIdle /\ OIdle /\ CIdle /\ DIdle

NormalizeOnce ==
  /\ npc = "zero"
  /\ once' = normalizeImagePrompt(prompt)
  /\ npc' = "once"
  /\ UNCHANGED <<prompt, twice>>
  /\ UNCHANGED notN

NormalizeAgain ==
  /\ npc = "once"
  /\ twice' = normalizeImagePrompt(once)
  /\ npc' = "twice"
  /\ UNCHANGED <<prompt, once>>
  /\ UNCHANGED notN

NNext == NormalizeOnce \/ NormalizeAgain

SpecNorm == NInit /\ [][NNext]_vars

(***************************************************************************)
(* generatePPTScript (services/llm.js)                                     *)
(*                                                                         *)
(* A response of the language model is described by the class of its text  *)
(* (cls) and by the list of slide values written in it (items):            *)
(*   empty           ''                                                    *)
(*   prose           text without any bracket                              *)
(*   object_slides   {"slides": [items]}                                   *)
(*   slides_scalar   {"slides": "none"}                                    *)
(*   object_other    {"title": "t"}                                        *)
(*   array           [items]                                               *)
(*   truncated       {"slides": [{"title": "a"}, {"ti                      *)
(*   comma_object    {"slides": [items,],}                                 *)
(*   comma_array     [items,]                                              *)
(*   unclosed        {"slides": [items]                                    *)
(*   null            null                                                  *)
(* A slide value is null (isObject = FALSE) or an object whose fields are  *)
(* strings, the empty string standing for an absent or falsy field.        *)
(***************************************************************************)
NoJson == [type |-> "none", hasSlides |-> FALSE, slidesIsArray |-> FALSE,
           items |-> <<>>]

JsonNull == [type |-> "null", hasSlides |-> FALSE, slidesIsArray |-> FALSE,
             items |-> <<>>]

JsonArray(items) == [type |-> "array", hasSlides |-> FALSE,
                     slidesIsArray |-> FALSE, items |-> items]

\* the object { slides: items }
JsonSlidesObject(items) == [type |-> "object", hasSlides |-> TRUE,
                            slidesIsArray |-> TRUE, items |-> items]

JsonSlidesScalar == [type |-> "object", hasSlides |-> TRUE,
                     slidesIsArray |-> FALSE, items |-> <<>>]

JsonOtherObject == [type |-> "object", hasSlides |-> FALSE,
                    slidesIsArray |-> FALSE, items |-> <<>>]

\* a value is truthy
Truthy(v) == v.type \in {"object", "array"}

\* response.match(/\{[\s\S]*"slides"[\s\S]*\}/) and JSON.parse of the match;
\* NoJson when there is no match or the parse throws
ObjectAttempt(resp) ==
  CASE resp.cls = "object_slides" -> JsonSlidesObject(resp.items)
    [] resp.cls = "slides_scalar" -> JsonSlidesScalar
    [] OTHER -> NoJson

\* response.match(/\[[\s\S]*\]/), JSON.parse of the match, Array.isArray,
\* result = { slides }
ArrayAttempt(resp) ==
  CASE resp.cls = "array" -> JsonSlidesObject(resp.items)
    [] resp.cls = "unclosed" -> JsonSlidesObject(resp.items)
    [] OTHER -> NoJson

\* JSON.parse(fixJsonString(response)): the text from the first { or [ to
\* the last } or ], trailing commas removed, newlines escaped; an array is
\* wrapped as { slides: result }
FixedAttempt(resp) ==
  CASE resp.cls = "comma_object" -> JsonSlidesObject(resp.items)
    [] resp.cls = "comma_array" -> JsonSlidesObject(resp.items)
    [] resp.cls = "object_other" -> JsonOtherObject
    [] resp.cls = "null" -> JsonNull
    [] OTHER -> NoJson

\* generateDefaultScript: the five slides; the texts after the knowledge
\* point are written as one token each
generateDefaultScript(kp, sum) ==
  <<[title |-> kp,
     script |-> <<"S1a">> \o kp \o <<"S1b">>,
     imagePrompt |-> StyleNameCJK \o <<"P1a">> \o kp \o <<"P1b">>,
     subtitle |-> <<"FUXI">> \o kp],
    [title |-> <<"ZHISHIJIANGJIE">>,
     script |-> IF sum # <<>> THEN sum ELSE <<"S2a">> \o kp \o <<"S2b">>,
     imagePrompt |-> StyleNameCJK \o <<"P2a">> \o kp \o <<"P2b">>,
     subtitle |-> <<"HEXINGAINIAN">>],
    [title |-> <<"XIANGXIJIEXI">>,
     script |-> <<"S3a">> \o kp \o <<"S3b">>,
     imagePrompt |-> StyleNameCJK \o <<"P3a">> \o kp \o <<"P3b">>,
     subtitle |-> <<"SHENRULIJIE">>],
    [title |-> <<"JULISHUOMING">>,
     script |-> <<"S4a">> \o kp \o <<"S4b">>,
     imagePrompt |-> StyleNameCJK \o <<"P4">>,
     subtitle |-> <<"SHILIFENXI">>],
    [title |-> <<"KETANGXIAOJIE">>,
     script |-> <<"S5a">> \o kp \o <<"S5b">>,
     imagePrompt |-> StyleNameCJK \o <<"P5a">> \o kp \o <<"P5b">>,
     subtitle |-> kp \o <<"ZONGJIEHUIGU">>]>>

\* a || b on strings
OrElse(a, b) == IF a # <<>> THEN a ELSE b

\* result.slides.map((slide, index) => ({ title: slide.title || ..., ... }))
NormalizeSlides(items) ==
  [k \in 1..Len(items) |->
     [title |-> OrElse(items[k].title, <<"DI", ToString(k), "YE">>),
      script |-> items[k].script,
      imagePrompt |->
        normalizeImagePrompt(OrElse(items[k].imagePrompt,
                                    items[k].image_prompt)),
      subtitle |-> items[k].subtitle]]

\* the slides of the object generatePPTScript resolves with
generatePPTScript(resp, kp, sum) ==
  IF resp.fetch = "rejected" THEN generateDefaultScript(kp, sum)
  ELSE LET r1 == ObjectAttempt(resp)
           r2 == IF ~Truthy(r1) THEN ArrayAttempt(resp) ELSE r1
           result == IF ~Truthy(r2) THEN FixedAttempt(resp) ELSE r2
       IN IF Truthy(result) /\ result.hasSlides /\ result.slidesIsArray
          THEN IF \E k \in 1..Len(result.items) : ~result.items[k].isObject
               THEN generateDefaultScript(kp, sum)
               ELSE NormalizeSlides(result.items)
          ELSE generateDefaultScript(kp, sum)

\* the slide values a response can hold
SlideValues ==
  {[isObject |-> FALSE, title |-> <<>>, script |-> <<>>, imagePrompt |-> <<>>,
    image_prompt |-> <<>>, subtitle |-> <<>>]}
  \cup
  [isObject : {TRUE},
   title : {<<>>, <<"t">>},
   script : {<<"s">>},
   imagePrompt : {<<>>, <<"p">>, StyleNameLatin},
   image_prompt : {<<>>, <<"q">>},
   subtitle : {<<>>}]

ItemLists == UNION {[1..k -> SlideValues] : k \in 0..MaxRespSlides}

LlmResponses ==
  {[fetch |-> "rejected", cls |-> "empty", items |-> <<>>]}
  \cup
  [fetch : {"resolved"},
   cls : {"empty", "prose", "slides_scalar", "object_other", "truncated",
          "null"},
   items : {<<>>}]
  \cup
  [fetch : {"resolved"},
   cls : {"object_slides", "array", "comma_object", "comma_array",
          "unclosed"},
   items : ItemLists]

GStart ==
  /\ llmResponse \in LlmResponses
  /\ knowledgePoint \in {<<"k">>, <<"k", "p">>}
  /\ summary \in {<<>>, <<"u">>}
  /\ gpc = "call"
  /\ pptScript = <<>>

GInit == GStart /\ MIdle /\ AIdle /\ SIdle /\ NIdle /\ VIdle /\ PIdle /\ TIdle /\ KIdle /\ OIdle /\ CIdle /\ DIdle

\* the call: every throw inside the try block is caught and answered with
\* the default script
GeneratePPTScript ==
  /\ gpc = "call"
  /\ pptScript' = generatePPTScript(llmResponse, knowledgePoint, summary)
  /\ gpc' = "returned"
  /\ UNCHANGED <<llmResponse, knowledgePoint, summary>>
  /\ UNCHANGED notG

GNext == GeneratePPTScript

SpecScript == GInit /\ [][GNext]_vars

(***************************************************************************)
(* synthesizeVideo with createSlideVideo, concatenateVideos, addSubtitles  *)
(* (services/videoSynth.js)                                                *)
(***************************************************************************)
NoPath == [kind |-> "none", n |-> 0]

\* path.join(tempDir, `slide_${Date.now()}_${i}.mp4`)
ClipPath(i) == [kind |-> "slide_clip", n |-> i]

\* path.join(tempDir, `merged_${Date.now()}.mp4`)
MergedPath == [kind |-> "merged", n |-> 0]

\* path.join(tempDir, `concat_${Date.now()}.txt`)
ListPath == [kind |-> "concat_list", n |-> 0]

\* path.join(tempDir, `subtitles_${Date.now()}.ass`)
AssPath == [kind |-> "ass", n |-> 0]

\* the outputPath argument
OutputPath == [kind |-> "final_video", n |-> 0]

\* getAudioDuration of videoSynth.js: what ffprobe prints, 5 when it fails
VideoAudioDuration(slide) ==
  IF slide.audioExists THEN slide.probe ELSE R(5, 1)

DurationAsProvided(sub) == sub.duration

\* sub.duration || 2
DurationOr2(sub) == IF sub.duration # 0 THEN sub.duration ELSE 2

\* slide.subtitles.reduce((sum, sub) => sum + (sub.duration || 2), 0)
RECURSIVE TotalSubDuration(_)
TotalSubDuration(subs) ==
  IF subs = <<>> THEN 0
  ELSE DurationOr2(Head(subs)) + TotalSubDuration(Tail(subs))

\* slide.subtitles.forEach(sub => ...): the cues of author-provided
\* subtitles, rescaled by timeScale = duration / totalSubDuration (1 when
\* the total is not positive); slide, source and rel are history
RECURSIVE RescaleLoop(_, _, _, _, _, _, _)
RescaleLoop(subs, k, i, offset, duration, subCurrentTime, acc) ==
  IF k > Len(subs) THEN acc
  ELSE LET totalSubDuration == TotalSubDuration(subs)
           scaledDuration ==
             IF totalSubDuration > 0
             THEN RScale(duration, DurationOr2(subs[k]), totalSubDuration)
             ELSE R(DurationOr2(subs[k]), 1)
       IN RescaleLoop(subs, k + 1, i, offset, duration,
                      RAdd(subCurrentTime, scaledDuration),
                      Append(acc, [text |-> subs[k].text,
                                   start |-> RAdd(offset, subCurrentTime),
                                   duration |-> scaledDuration,
                                   slide |-> i,
                                   source |-> "author",
                                   rel |-> subCurrentTime]))

SlideCuesAuthorFirst(slide, i, offset, duration) ==
  IF Len(slide.subtitles) > 0
  THEN RescaleLoop(slide.subtitles, 1, i, offset, duration, R(0, 1), <<>>)
  ELSE IF slide.script # <<>>
  THEN LET autoSubtitles == generateSubtitlesFromScript(slide.script, duration)
       IN [k \in 1..Len(autoSubtitles) |->
             [text |-> autoSubtitles[k].text,
              start |-> RAdd(offset, autoSubtitles[k].start),
              duration |-> autoSubtitles[k].duration,
              slide |-> i,
              source |-> "script",
              rel |-> autoSubtitles[k].start]]
  ELSE IF slide.subtitle # <<>>
  THEN <<[text |-> slide.subtitle, start |-> offset, duration |-> duration,
          slide |-> i, source |-> "caption", rel |-> R(0, 1)]>>
  ELSE <<>>

\* the cues pushed for slide i (0-based) whose clip lasts duration, with
\* currentTime = offset: from slide.script if it is truthy, else from a
\* non-empty slide.subtitles, else from slide.subtitle
SlideCues(slide, i, offset, duration) ==
  IF slide.script # <<>>
  THEN LET autoSubtitles == generateSubtitlesFromScript(slide.script, duration)
       IN [k \in 1..Len(autoSubtitles) |->
             [text |-> autoSubtitles[k].text,
              start |-> RAdd(offset, autoSubtitles[k].start),
              duration |-> autoSubtitles[k].duration,
              slide |-> i,
              source |-> "script",
              rel |-> autoSubtitles[k].start]]
  ELSE IF Len(slide.subtitles) > 0
  THEN RescaleLoop(slide.subtitles, 1, i, offset, duration, R(0, 1), <<>>)
  ELSE IF slide.subtitle # <<>>
  THEN <<[text |-> slide.subtitle, start |-> offset, duration |-> duration,
          slide |-> i, source |-> "caption", rel |-> R(0, 1)]>>
  ELSE <<>>

\* the slides handed to synthesizeVideo: what the input files are and what
\* text the slide carries
SlideTexts ==
  {[script |-> <<"x", "STOP", "x">>,
    subtitles |-> <<[text |-> <<"a">>, duration |-> 2]>>,
    subtitle |-> <<"c">>],
   [script |-> <<>>,
    subtitles |-> <<[text |-> <<"a">>, duration |-> 2],
                    [text |-> <<"b">>, duration |-> 6]>>,
    subtitle |-> <<"c">>],
   [script |-> <<>>,
    subtitles |-> <<[text |-> <<"a">>, duration |-> 0]>>,
    subtitle |-> <<>>],
   [script |-> <<>>,
    subtitles |-> <<[text |-> <<"a">>, duration |-> -2],
                    [text |-> <<"b">>, duration |-> 2]>>,
    subtitle |-> <<>>],
   [script |-> <<>>, subtitles |-> <<>>, subtitle |-> <<"c">>],
   [script |-> <<>>, subtitles |-> <<>>, subtitle |-> <<>>]}

VideoSlide(t, imageExists, audioExists, probe) ==
  [imageExists |-> imageExists, audioExists |-> audioExists,
   script |-> t.script, subtitles |-> t.subtitles, subtitle |-> t.subtitle,
   probe |-> probe]

VideoSlides ==
  {VideoSlide(t, TRUE, TRUE, probe) :
     t \in SlideTexts, probe \in {R(3, 1), R(5, 1), R(12, 1)}}
  \cup {VideoSlide(t, FALSE, TRUE, R(3, 1)) : t \in SlideTexts}
  \cup {VideoSlide(t, TRUE, FALSE, R(3, 1)) : t \in SlideTexts}
  \cup {VideoSlide(t, TRUE, TRUE, R(2, 1)) :
          t \in {u \in SlideTexts : u.script # <<>>}}

VStart ==
  /\ vSlides \in UNION {[1..k -> VideoSlides] : k \in 0..MaxSlides}
  /\ vToolkit \in BOOLEAN
  /\ vpc = "start"
  /\ vi = 0
  /\ slideVideos = <<>>
  /\ videoSubtitles = <<>>
  /\ videoTime = R(0, 1)
  /\ videoFiles = {}
  /\ finalVideoPath = NoPath
  /\ videoProgress = <<>>
  /\ clipDurations = <<>>
  /\ burnOutcome = "none"

VInit == VStart /\ MIdle /\ AIdle /\ SIdle /\ NIdle /\ GIdle /\ PIdle /\ TIdle /\ KIdle /\ OIdle /\ CIdle /\ DIdle

\* if (!checkFFmpeg()) throw new Error(...); mkdir tempDir
SynthesizeStart ==
  /\ vpc = "start"
  /\ vpc' = IF vToolkit THEN "loop" ELSE "rejected"
  /\ UNCHANGED <<vSlides, vToolkit, vi, slideVideos, videoSubtitles,
                 videoTime, videoFiles, finalVideoPath, videoProgress,
                 clipDurations, burnOutcome>>
  /\ UNCHANGED notV

\* for (i < slides.length): onProgress(Math.round((i / slides.length) * 60));
\* createSlideVideo probes the audio and starts ffmpeg
ClipBegin ==
  /\ vpc = "loop"
  /\ vi < Len(vSlides)
  /\ videoProgress' = Append(videoProgress, RoundDiv(vi * 60, Len(vSlides)))
  /\ vpc' = "clip_wait"
  /\ UNCHANGED <<vSlides, vToolkit, vi, slideVideos, videoSubtitles,
                 videoTime, videoFiles, finalVideoPath, clipDurations,
                 burnOutcome>>
  /\ UNCHANGED notV

\* ffmpeg of createSlideVideo exits: on error the promise rejects and the
\* catch block of the loop rethrows; otherwise the clip is pushed, the cues
\* of the slide are collected and currentTime advances
ClipSettle ==
  /\ vpc = "clip_wait"
  /\ LET slide == vSlides[vi + 1]
         duration == VideoAudioDuration(slide)
     IN \E ok \in BOOLEAN :
          IF ok /\ slide.imageExists /\ slide.audioExists
          THEN /\ videoFiles' = videoFiles \cup
                    {[path |-> ClipPath(vi), content |-> "clip"]}
               /\ slideVideos' = Append(slideVideos, ClipPath(vi))
               /\ videoSubtitles' =
                    videoSubtitles \o SlideCues(slide, vi, videoTime, duration)
               /\ videoTime' = RAdd(videoTime, duration)
               /\ clipDurations' = Append(clipDurations, duration)
               /\ vi' = vi + 1
               /\ vpc' = "loop"
          ELSE /\ vpc' = "rejected"
               /\ UNCHANGED <<videoFiles, slideVideos, videoSubtitles,
                              videoTime, clipDurations, vi>>
  /\ UNCHANGED <<vSlides, vToolkit, finalVideoPath, videoProgress,
                 burnOutcome>>
  /\ UNCHANGED notV

\* the loop ended: onProgress(70); concatenateVideos writes the list file
\* and starts ffmpeg
ConcatBegin ==
  /\ vpc = "loop"
  /\ vi >= Len(vSlides)
  /\ videoProgress' = Append(videoProgress, 70)
  /\ videoFiles' = videoFiles \cup {[path |-> ListPath, content |-> "list"]}
  /\ vpc' = "concat_wait"
  /\ UNCHANGED <<vSlides, vToolkit, vi, slideVideos, videoSubtitles,
                 videoTime, finalVideoPath, clipDurations, burnOutcome>>
  /\ UNCHANGED notV

FinishSynthesisDropsMerged(files, final, log) ==
  /\ videoFiles' =
       {f \in files :
          /\ \A k \in 1..Len(slideVideos) : f.path # slideVideos[k]
          /\ f.path # MergedPath}
  /\ finalVideoPath' = final
  /\ videoProgress' = log \o <<95, 100>>
  /\ vpc' = "returned"

\* onProgress(95); unlink every clip; unlink the merged video unless it is
\* the final video; onProgress(100); return { filepath: finalVideoPath, ... }
FinishSynthesis(files, final, log) ==
  /\ videoFiles' =
       {f \in files :
          /\ \A k \in 1..Len(slideVideos) : f.path # slideVideos[k]
          /\ ~(f.path = MergedPath /\ MergedPath # final)}
  /\ finalVideoPath' = final
  /\ videoProgress' = log \o <<95, 100>>
  /\ vpc' = "returned"

\* fs.copyFileSync(mergedVideoPath, outputPath)
CopyMerged(files) ==
  {f \in files : f.path # OutputPath}
    \cup {[path |-> OutputPath, content |-> "merged"]}

\* ffmpeg of concatenateVideos exits: the list file is unlinked; on error
\* the promise rejects.  Otherwise onProgress(85) and, with cues,
\* addSubtitles writes the ASS file and starts ffmpeg (a throw before that
\* is caught by synthesizeVideo, which copies the merged video); without
\* cues the merged video is copied
ConcatSettle ==
  /\ vpc = "concat_wait"
  /\ LET files == {f \in videoFiles : f.path # ListPath}
         merged == files \cup {[path |-> MergedPath, content |-> "merged"]}
         log == Append(videoProgress, 85)
     IN \E ok \in BOOLEAN :
          IF ok /\ slideVideos # <<>>
          THEN IF Len(videoSubtitles) > 0
               THEN \E assWritten \in BOOLEAN :
                      IF assWritten
                      THEN /\ videoFiles' = merged \cup
                                {[path |-> AssPath, content |-> "ass"]}
                           /\ videoProgress' = log
                           /\ vpc' = "burn_wait"
                           /\ UNCHANGED <<finalVideoPath, burnOutcome>>
                      ELSE /\ FinishSynthesis(CopyMerged(merged), OutputPath,
                                              log)
                           /\ burnOutcome' = "rejected"
               ELSE /\ FinishSynthesis(CopyMerged(merged), OutputPath, log)
                    /\ burnOutcome' = "skipped"
          ELSE /\ videoFiles' = files
               /\ vpc' = "rejected"
               /\ UNCHANGED <<finalVideoPath, videoProgress, burnOutcome>>
  /\ UNCHANGED <<vSlides, vToolkit, vi, slideVideos, videoSubtitles,
                 videoTime, clipDurations>>
  /\ UNCHANGED notV

\* ffmpeg of addSubtitles exits: the ASS file is unlinked; on error the
\* promise resolves with { filepath: videoPath, subtitlesAdded: false },
\* otherwise with { filepath: outputPath, subtitlesAdded: true }
BurnSettle ==
  /\ vpc = "burn_wait"
  /\ LET files == {f \in videoFiles : f.path # AssPath}
     IN \E ok \in BOOLEAN :
          IF ok
          THEN /\ FinishSynthesis(
                    {f \in files : f.path # OutputPath}
                      \cup {[path |-> OutputPath, content |-> "subtitled"]},
                    OutputPath, videoProgress)
               /\ burnOutcome' = "burned"
          ELSE /\ FinishSynthesis(files, MergedPath, videoProgress)
               /\ burnOutcome' = "failed"
  /\ UNCHANGED <<vSlides, vToolkit, vi, slideVideos, videoSubtitles,
                 videoTime, clipDurations>>
  /\ UNCHANGED notV

VNext ==
  \/ SynthesizeStart
  \/ ClipBegin
  \/ ClipSettle
  \/ ConcatBegin
  \/ ConcatSettle
  \/ BurnSettle

SpecVideo == VInit /\ [][VNext]_vars

(***************************************************************************)
(* analyzeKnowledgePoint (server/services/llm.js)                          *)
(***************************************************************************)
\* the values a field of the parsed object can have: t is "absent", "null",
\* "str" (v its characters) or "list" (v its items, one token each)
JAbsent == [t |-> "absent", v |-> <<>>]

JNullValue == [t |-> "null", v |-> <<>>]

JStr(chars) == [t |-> "str", v |-> chars]

JList(items) == [t |-> "list", v |-> items]

\* a value is truthy: an array always, a string unless it is empty
JsTruthy(j) == j.t = "list" \/ (j.t = "str" /\ j.v # <<>>)

\* a || b
JsOr(a, b) == IF JsTruthy(a) THEN a ELSE b

\* the subjects the prompt asks the model to choose from
SubjectList ==
  {<<"chinese">>, <<"math">>, <<"english">>, <<"physics">>, <<"chemistry">>,
   <<"biology">>, <<"history">>, <<"geography">>}

\* the transcripts tried: empty, short, and longer than 50 characters
AnalyzeTranscripts == {<<>>, <<"t", "x">>, [k \in 1..60 |-> "x"]}

\* what callLLM can come back with: a rejection, a text without braces, a
\* text whose braces do not hold valid JSON, or an object with any value in
\* each of the four fields
AnalyzeResponses ==
  {[fetch |-> "rejected", cls |-> "prose"],
   [fetch |-> "resolved", cls |-> "prose"],
   [fetch |-> "resolved", cls |-> "broken"]}
  \cup
  [fetch : {"resolved"},
   cls : {"object"},
   knowledgePoint : {JAbsent, JStr(<<>>), JStr(<<"k">>)},
   summary : {JAbsent, JStr(<<"s">>)},
   subject : {JAbsent, JNullValue, JStr(<<"math">>), JStr(<<"physics">>),
              JStr(<<"art">>)},
   keyPoints : {JAbsent, JList(<<>>), JList(<<"p">>), JStr(<<"p">>)}]

\* transcript.substring(0, 50) + '...'
SummaryDefault(text) == JStr(Substring0(text, 50) \o <<".", ".", ".">>)

\* the object returned by the catch block
AnalysisDefault(text) ==
  [knowledgePoint |-> JStr(<<"KETANGZHISHIDIAN">>),
   summary |-> SummaryDefault(text),
   subject |-> JStr(<<"math">>),
   keyPoints |-> JList(<<>>)]

\* analyzeKnowledgePoint(transcript), given what callLLM came back with
analyzeKnowledgePoint(resp, text) ==
  IF resp.fetch = "resolved" /\ resp.cls = "object"
  THEN [knowledgePoint |-> JsOr(resp.knowledgePoint, JStr(<<"ZHISHIDIAN">>)),
        summary |-> JsOr(resp.summary, SummaryDefault(text)),
        subject |-> JsOr(resp.subject, JStr(<<"math">>)),
        keyPoints |-> JsOr(resp.keyPoints, JList(<<>>))]
  ELSE AnalysisDefault(text)

KStart ==
  /\ kResponse \in AnalyzeResponses
  /\ kTranscript \in AnalyzeTranscripts
  /\ kpc = "call"
  /\ analysis = [t |-> "none"]

KInit == KStart /\ MIdle /\ AIdle /\ SIdle /\ NIdle /\ GIdle /\ VIdle /\ PIdle /\ TIdle /\ OIdle /\ CIdle /\ DIdle

\* the call settles: analyzeKnowledgePoint has no path that rejects
AnalyzeCall ==
  /\ kpc = "call"
  /\ analysis' = analyzeKnowledgePoint(kResponse, kTranscript)
  /\ kpc' = "returned"
  /\ UNCHANGED <<kResponse, kTranscript>>
  /\ UNCHANGED notK

KNext == AnalyzeCall

SpecAnalyze == KInit /\ [][KNext]_vars

(***************************************************************************)
(* processMultipleMarkers: the overall progress (services/processor.js)    *)
(*                                                                         *)
(* The arithmetic of the loop on its own, for any number of markers up to  *)
(* MaxTotal; what a marker does is reduced to the values it reports.       *)
(***************************************************************************)
\* the values processTimeMarker passes to its onProgress: the stage values
\* and some values of the weighted sub-task ranges; within one call they
\* never decrease and 100 is the last one
MarkerProgressValues == {5, 13, 20, 30, 40, 55, 80, 89, 100}

OStart ==
  /\ oTotal \in 0..MaxTotal
  /\ oi = 0
  /\ oProg = 0
  /\ oLast = 0
  /\ oPrev = 0
  /\ opc = "loop"

OInit == OStart /\ MIdle /\ AIdle /\ SIdle /\ NIdle /\ GIdle /\ VIdle /\ PIdle /\ TIdle /\ KIdle /\ CIdle /\ DIdle

\* loop head: onProgress?.(baseProgress, ...), processTimeMarker is called
MarkerBegins ==
  /\ opc = "loop"
  /\ oi < oTotal
  /\ oPrev' = oLast
  /\ oLast' = baseProgress(oi, oTotal)
  /\ oProg' = 0
  /\ opc' = "marker"
  /\ UNCHANGED <<oTotal, oi>>
  /\ UNCHANGED notO

\* the callback given to processTimeMarker: (prog, msg) => onProgress?.(
\* Math.round(baseProgress + (prog / total)), msg)
MarkerReports ==
  /\ opc = "marker"
  /\ oProg < 100
  /\ \E prog \in MarkerProgressValues :
       /\ prog >= oProg
       /\ oProg' = prog
       /\ oPrev' = oLast
       /\ oLast' = totalProgress(oi, oTotal, prog)
  /\ UNCHANGED <<oTotal, oi, opc>>
  /\ UNCHANGED notO

\* await processTimeMarker(...) settles: resolved after it reported 100,
\* rejected at any earlier point; either way the loop goes on (i++)
MarkerEnds ==
  /\ opc = "marker"
  /\ oi' = oi + 1
  /\ opc' = "loop"
  /\ UNCHANGED <<oTotal, oProg, oLast, oPrev>>
  /\ UNCHANGED notO

\* after the loop: onProgress?.(Math.round(100), ...)
AllMarkersDone ==
  /\ opc = "loop"
  /\ oi >= oTotal
  /\ oPrev' = oLast
  /\ oLast' = 100
  /\ opc' = "done"
  /\ UNCHANGED <<oTotal, oi, oProg>>
  /\ UNCHANGED notO

ONext ==
  \/ MarkerBegins
  \/ MarkerReports
  \/ MarkerEnds
  \/ AllMarkersDone

SpecProgress == OInit /\ [][ONext]_vars

(***************************************************************************)
(* textToSpeechFile, synthesizeLongText and splitTextByPunctuation         *)
(* (server/services/tts.js)                                                *)
(***************************************************************************)
\* if (textBytes > 1024)
TtsByteLimit == 1024

\* if (Buffer.from(segment, 'utf-8').length > 1000)
ForceSplitBytes == 1000

\* splitTextByPunctuation(text, 300)
SegmentMaxLength == 300

\* the characters UTF-8 encodes in one byte; every other character used
\* here ("HAN", a CJK ideograph, and the CJK punctuation) takes three
AsciiChars == {"a", "x", " ", ",", "NL"}

\* Buffer.from(str, 'utf-8').length
Utf8Length(str) ==
  LET narrow == Cardinality({k \in 1..Len(str) : str[k] \in AsciiChars})
  IN narrow + 3 * (Len(str) - narrow)

\* the positions where a run of separators or of other characters begins
RunStarts(str) ==
  {k \in 1..Len(str) :
     k = 1 \/ ((str[k] \in SentenceSeps) # (str[k - 1] \in SentenceSeps))}

\* text.split(/([STOP EXCL QUES SEMI \n]+)/).filter(Boolean): the maximal
\* runs of separators and of other characters, in order
Sentences(str) ==
  LET starts == RunStarts(str)
      n == Cardinality(starts)
      StartOf(j) == CHOOSE x \in starts : Cardinality({y \in starts : y < x}) = j - 1
  IN [j \in 1..n |->
        SubSeq(str, StartOf(j), IF j = n THEN Len(str) ELSE StartOf(j + 1) - 1)]

\* if (currentSegment) segments.push(currentSegment.trim())
PushSegment(segments, currentSegment) ==
  IF currentSegment # <<>> THEN Append(segments, Trim(currentSegment))
  ELSE segments

\* the first loop of splitTextByPunctuation
RECURSIVE GroupSentences(_, _, _, _, _)
GroupSentences(sentences, i, currentSegment, segments, maxLen) ==
  IF i > Len(sentences) THEN PushSegment(segments, currentSegment)
  ELSE LET sentence == sentences[i]
       IN IF Len(currentSegment) + Len(sentence) <= maxLen
          THEN GroupSentences(sentences, i + 1, currentSegment \o sentence,
                              segments, maxLen)
          ELSE GroupSentences(sentences, i + 1, sentence,
                              PushSegment(segments, currentSegment), maxLen)

\* segment.lastIndexOf(c, fromIndex), 0-based, -1 when absent
LastIndexOf(str, c, fromIndex) ==
  LET found == {k \in 0..Min(fromIndex, Len(str) - 1) : str[k + 1] = c}
  IN IF found = {} THEN -1
     ELSE CHOOSE k \in found : \A j \in found : j <= k

\* while (start < segment.length) { ... result.push(substring.trim()) }
RECURSIVE ForceSplit(_, _, _, _)
ForceSplit(segment, start, maxLen, acc) ==
  IF start >= Len(segment) THEN acc
  ELSE LET commaIndex == LastIndexOf(segment, "CJKCOMMA", start + maxLen)
           end == IF start + maxLen < Len(segment) /\ commaIndex > start
                  THEN commaIndex + 1
                  ELSE start + maxLen
       IN ForceSplit(segment, end, maxLen,
                     Append(acc, Trim(SubSeq(segment, start + 1,
                                             Min(end, Len(segment))))))

SplitSegmentUnforced(segment, maxLen) == <<segment>>

\* the body of the second loop of splitTextByPunctuation
SplitSegment(segment, maxLen) ==
  IF Utf8Length(segment) > ForceSplitBytes
  THEN ForceSplit(segment, 0, maxLen, <<>>)
  ELSE <<segment>>

RECURSIVE SplitSegments(_, _, _)
SplitSegments(segments, k, maxLen) ==
  IF k > Len(segments) THEN <<>>
  ELSE SplitSegment(segments[k], maxLen) \o SplitSegments(segments, k + 1, maxLen)

NonEmptyString(str) == Len(str) > 0

\* splitTextByPunctuation(text, maxLength)
splitTextByPunctuation(text, maxLen) ==
  SelectSeq(SplitSegments(GroupSentences(Sentences(text), 1, <<>>, <<>>, maxLen),
                          1, maxLen),
            NonEmptyString)

\* the runs a text is made of
TtsRuns ==
  {[k \in 1..330 |-> "HAN"], [k \in 1..400 |-> "a"], [k \in 1..40 |-> "NL"],
   <<"STOP">>, <<"CJKCOMMA">>}

RECURSIVE ConcatAll(_)
ConcatAll(strs) ==
  IF strs = <<>> THEN <<>> ELSE Head(strs) \o ConcatAll(Tail(strs))

\* the texts tried: up to MaxRuns runs
TtsTexts ==
  {ConcatAll(rs) : rs \in UNION {[1..n -> TtsRuns] : n \in 0..MaxRuns}}

\* data.addition?.duration of a response: milliseconds, or -1 for undefined
ReportedDurations == {-1, 1500}

\* result.duration || 0
DurationOrZero(d) == IF d = -1 THEN 0 ELSE d

NoReturn == [status |-> "none", duration |-> 0, parts |-> <<>>]

\* a callTTSAPI(text) call: the bytes sent and how it settled
TtsCall(text) ==
  [text |-> text, bytes |-> Utf8Length(text), outcome |-> "pending",
   duration |-> -1]

TStart ==
  /\ ttsText \in TtsTexts
  /\ tpc = "start"
  /\ ttsSegments = <<>>
  /\ tsi = 0
  /\ ttsCalls = <<>>
  /\ tempFiles = <<>>
  /\ ttsTotalDuration = 0
  /\ ttsDisk = {}
  /\ ttsReturn = NoReturn

TInit == TStart /\ MIdle /\ AIdle /\ SIdle /\ NIdle /\ GIdle /\ VIdle /\ PIdle /\ KIdle /\ OIdle /\ CIdle /\ DIdle

\* textToSpeechFile up to its first await: one callTTSAPI(text) when the
\* text is within the byte limit, else synthesizeLongText up to its loop
TextToSpeechFile ==
  /\ tpc = "start"
  /\ IF Utf8Length(ttsText) > TtsByteLimit
     THEN /\ ttsSegments' = splitTextByPunctuation(ttsText, SegmentMaxLength)
          /\ tpc' = "loop"
          /\ UNCHANGED ttsCalls
     ELSE /\ ttsCalls' = <<TtsCall(ttsText)>>
          /\ tpc' = "single_wait"
          /\ UNCHANGED ttsSegments
  /\ UNCHANGED <<ttsText, tsi, tempFiles, ttsTotalDuration, ttsDisk, ttsReturn>>
  /\ UNCHANGED notT

\* the single call settles: write outputPath and return, or reject
SingleSettle ==
  /\ tpc = "single_wait"
  /\ \E ok \in BOOLEAN, d \in ReportedDurations :
       IF ok
       THEN /\ ttsCalls' = [ttsCalls EXCEPT ![1].outcome = "ok",
                                            ![1].duration = d]
            /\ ttsReturn' = [status |-> "returned", duration |-> d,
                             parts |-> <<0>>]
            /\ tpc' = "returned"
       ELSE /\ d = -1
            /\ ttsCalls' = [ttsCalls EXCEPT ![1].outcome = "failed"]
            /\ ttsReturn' = [status |-> "rejected", duration |-> 0,
                             parts |-> <<>>]
            /\ tpc' = "rejected"
  /\ UNCHANGED <<ttsText, ttsSegments, tsi, tempFiles, ttsTotalDuration,
                 ttsDisk>>
  /\ UNCHANGED notT

\* for (i < segments.length): callTTSAPI(segment, options) is called
SegmentCall ==
  /\ tpc = "loop"
  /\ tsi < Len(ttsSegments)
  /\ ttsCalls' = Append(ttsCalls, TtsCall(ttsSegments[tsi + 1]))
  /\ tpc' = "segment_wait"
  /\ UNCHANGED <<ttsText, ttsSegments, tsi, tempFiles, ttsTotalDuration,
                 ttsDisk, ttsReturn>>
  /\ UNCHANGED notT

SegmentSettleAborts ==
  /\ tpc = "segment_wait"
  /\ \E ok \in BOOLEAN, d \in ReportedDurations :
       IF ok
       THEN /\ ttsCalls' = [ttsCalls EXCEPT ![Len(ttsCalls)].outcome = "ok",
                                            ![Len(ttsCalls)].duration = d]
            /\ ttsDisk' = ttsDisk \cup {[kind |-> "tts_segment", n |-> tsi]}
            /\ tempFiles' = Append(tempFiles, tsi)
            /\ ttsTotalDuration' = ttsTotalDuration + DurationOrZero(d)
            /\ tsi' = tsi + 1
            /\ tpc' = "loop"
            /\ UNCHANGED ttsReturn
       ELSE /\ d = -1
            /\ ttsCalls' = [ttsCalls EXCEPT ![Len(ttsCalls)].outcome = "failed"]
            /\ ttsReturn' = [status |-> "rejected", duration |-> 0,
                             parts |-> <<>>]
            /\ tpc' = "rejected"
            /\ UNCHANGED <<ttsDisk, tempFiles, ttsTotalDuration, tsi>>
  /\ UNCHANGED <<ttsText, ttsSegments>>
  /\ UNCHANGED notT

\* the call of this segment settles.  Resolved: write the segment file,
\* tempFiles.push(tempFile), totalDuration += result.duration || 0.
\* Rejected (or the file cannot be written): the catch logs and the loop
\* goes on
SegmentSettle ==
  /\ tpc = "segment_wait"
  /\ \E ok \in BOOLEAN, d \in ReportedDurations :
       IF ok
       THEN /\ ttsCalls' = [ttsCalls EXCEPT ![Len(ttsCalls)].outcome = "ok",
                                            ![Len(ttsCalls)].duration = d]
            /\ ttsDisk' = ttsDisk \cup {[kind |-> "tts_segment", n |-> tsi]}
            /\ tempFiles' = Append(tempFiles, tsi)
            /\ ttsTotalDuration' = ttsTotalDuration + DurationOrZero(d)
       ELSE /\ d = -1
            /\ ttsCalls' = [ttsCalls EXCEPT ![Len(ttsCalls)].outcome = "failed"]
            /\ UNCHANGED <<ttsDisk, tempFiles, ttsTotalDuration>>
  /\ tsi' = tsi + 1
  /\ tpc' = "loop"
  /\ UNCHANGED <<ttsText, ttsSegments, ttsReturn>>
  /\ UNCHANGED notT

\* after the loop: throw if tempFiles is empty; else write the list file,
\* run ffmpeg -f concat into outputPath, and in the finally block unlink the
\* list file and every segment file; return { filepath, duration }
ConcatSegments ==
  /\ tpc = "loop"
  /\ tsi >= Len(ttsSegments)
  /\ IF tempFiles = <<>>
     THEN /\ ttsReturn' = [status |-> "rejected", duration |-> 0,
                           parts |-> <<>>]
          /\ tpc' = "rejected"
          /\ UNCHANGED ttsDisk
     ELSE \E ok \in BOOLEAN :
            /\ ttsDisk' = {}
            /\ IF ok
               THEN /\ ttsReturn' = [status |-> "returned",
                                     duration |-> ttsTotalDuration,
                                     parts |-> tempFiles]
                    /\ tpc' = "returned"
               ELSE /\ ttsReturn' = [status |-> "rejected", duration |-> 0,
                                     parts |-> <<>>]
                    /\ tpc' = "rejected"
  /\ UNCHANGED <<ttsText, ttsSegments, tsi, ttsCalls, tempFiles,
                 ttsTotalDuration>>
  /\ UNCHANGED notT

TNext ==
  \/ TextToSpeechFile
  \/ SingleSettle
  \/ SegmentCall
  \/ SegmentSettle
  \/ ConcatSegments

SpecTts == TInit /\ [][TNext]_vars

(***************************************************************************)
(* processTimeMarker (server/services/processor.js), one call, with the    *)
(* transcribeAudio and synthesizeVideo calls it awaits                     *)
(***************************************************************************)
\* path.join(config.outputDir, taskId) and path.join(config.tempDir, taskId)
\* of this call; taskId is a fresh random identifier
OutputDir == "output/self"

TempDir == "temp/self"

\* the directories of another marker, and config.tempDir itself
SiblingDirs == {"output/other", "temp/other"}

SharedTempDir == "temp"

SiblingFiles ==
  {[dir |-> "output/other", file |-> "slide.jpg", n |-> 1],
   [dir |-> "output/other", file |-> "final_video", n |-> 0],
   [dir |-> "temp/other", file |-> "audio_segment.mp3", n |-> 0]}

\* the file a path of the output directory names
InOutputDir(path) == [dir |-> OutputDir, file |-> path.file, n |-> path.n]

\* path.join(tempDir, 'audio_segment.mp3')
SegmentFile == [dir |-> TempDir, file |-> "audio_segment.mp3", n |-> 0]

\* the marker times and source lengths tried (seconds)
PipelineMarkers == {0, 300, 600}

PipelineDurations == {50, 185}

\* the slides a script can hold
PipelineSlideTexts ==
  {[script |-> <<"x", "STOP", "x">>,
    subtitles |-> <<[text |-> <<"a">>, duration |-> 2]>>,
    subtitle |-> <<"c">>],
   [script |-> <<>>, subtitles |-> <<>>, subtitle |-> <<"c">>]}

AsrStageProgressUnweighted(prog) == 5 + prog

\* (prog, msg) => onProgress(Math.round(5 + prog * 0.15), msg)
AsrStageProgress(prog) == RoundDiv(100 + 3 * prog, 20)

\* (prog, msg) => onProgress(Math.round(80 + prog * 0.18), msg)
VideoStageProgress(prog) == RoundDiv(4000 + 9 * prog, 50)

\* every value passed to onProgress so far, in call order: the callbacks
\* handed to transcribeAudio and synthesizeVideo forward at once
ProgressReported ==
  pProgress
    \o [k \in 1..Len(asrProgress) |-> AsrStageProgress(asrProgress[k])]
    \o [k \in 1..Len(videoProgress) |-> VideoStageProgress(videoProgress[k])]

\* onUpdate?.({ step, status })
StageEvent(step, status) == [step |-> step, status |-> status]

NoSubTask == [state |-> "none", outcome |-> "none"]

NoResult == [success |-> FALSE, slides |-> <<>>, video |-> NoPath]

PStart ==
  /\ pMarkerTime \in PipelineMarkers
  /\ pAudioDuration \in PipelineDurations
  /\ pToolkit \in BOOLEAN
  /\ ppc = "mkdir"
  /\ pErr = "none"
  /\ pProgress = <<>>
  /\ pDirs = SiblingDirs \cup {SharedTempDir}
  /\ pFiles = SiblingFiles
  /\ pWindow = [startTime |-> 0, endTime |-> 0]
  /\ pCalls = <<>>
  /\ pSlides = <<>>
  /\ psi = 0
  /\ pImg = NoSubTask
  /\ pTts = NoSubTask
  /\ pSlideImages = <<>>
  /\ pSlideAudios = <<>>
  /\ pResult = NoResult
  /\ pStages = <<>>
  /\ pCleanup = "none"

PInit == PStart /\ MIdle /\ AIdle /\ SIdle /\ NIdle /\ GIdle /\ VIdle /\ TIdle /\ KIdle /\ OIdle /\ CIdle /\ DIdle

\* a statement inside the try block throws
PThrow(msg) ==
  /\ ppc' = "thrown"
  /\ pErr' = msg

\* transcribeAudio is not running
AsrReset ==
  /\ asrFfmpeg' = TRUE
  /\ startTime' = 0
  /\ endTime' = 0
  /\ apc' = "idle"
  /\ segmentTasks' = <<>>
  /\ batchI' = 0
  /\ chunkState' = <<>>
  /\ promiseValue' = <<>>
  /\ allResults' = <<>>
  /\ completedCount' = 0
  /\ transcript' = <<>>
  /\ asrOutcome' = <<>>
  /\ outOfOrder' = FALSE
  /\ chunkFiles' = {}
  /\ asrProgress' = <<>>

\* synthesizeVideo is not running
VideoReset ==
  /\ vSlides' = <<>>
  /\ vToolkit' = TRUE
  /\ vpc' = "idle"
  /\ vi' = 0
  /\ slideVideos' = <<>>
  /\ videoSubtitles' = <<>>
  /\ videoTime' = R(0, 1)
  /\ videoFiles' = {}
  /\ finalVideoPath' = NoPath
  /\ videoProgress' = <<>>
  /\ clipDurations' = <<>>
  /\ burnOutcome' = "none"

\* [outputDir, tempDir].forEach(dir => mkdirSync(dir)) before the try block;
\* then onProgress(5), onUpdate({ step: 'asr', status: 'processing' })
CreateDirectories ==
  /\ ppc = "mkdir"
  /\ \E made \in {{}, {OutputDir}, {OutputDir, TempDir}} :
       /\ pDirs' = pDirs \cup made
       /\ IF made = {OutputDir, TempDir}
          THEN /\ pProgress' = Append(pProgress, 5)
               /\ pStages' = Append(pStages, StageEvent("asr", "processing"))
               /\ ppc' = "probe"
               /\ UNCHANGED pErr
          ELSE /\ ppc' = "rejected"
               /\ pErr' = "mkdir"
               /\ UNCHANGED <<pProgress, pStages>>
  /\ UNCHANGED <<pMarkerTime, pAudioDuration, pToolkit, pFiles, pWindow,
                 pCalls, pSlides, psi, pImg, pTts, pSlideImages, pSlideAudios,
                 pResult, pCleanup>>
  /\ UNCHANGED notP

WindowUnclipped(marker, audioDuration) ==
  [startTime |-> marker - 300, endTime |-> marker + 180]

WindowWide(marker, audioDuration) ==
  [startTime |-> Max(0, marker - 600),
   endTime |-> Min(audioDuration, marker + 300)]

\* startTime = Math.max(0, markerTime - 300),
\* endTime = Math.min(audioDuration, markerTime + 180)
Window(marker, audioDuration) ==
  [startTime |-> Max(0, marker - 300),
   endTime |-> Min(audioDuration, marker + 180)]

\* const audioDuration = getAudioDuration(audioFilePath) (ffprobe; rethrows),
\* then the window
ProbeSource ==
  /\ ppc = "probe"
  /\ \E ok \in BOOLEAN :
       IF ok
       THEN /\ pWindow' = Window(pMarkerTime, pAudioDuration)
            /\ ppc' = "extract"
            /\ UNCHANGED pErr
       ELSE /\ PThrow("ffprobe")
            /\ UNCHANGED pWindow
  /\ UNCHANGED <<pMarkerTime, pAudioDuration, pToolkit, pProgress, pDirs, pCleanup,
                 pFiles, pCalls, pSlides, psi, pImg, pTts, pSlideImages,
                 pSlideAudios, pResult, pStages>>
  /\ UNCHANGED notP

\* extractAudioSegment(audioFilePath, segmentPath, startTime,
\* endTime - startTime): ffmpeg -ss startTime -t duration; rethrows
CutWindow ==
  /\ ppc = "extract"
  /\ pCalls' = Append(pCalls, [fn |-> "extractAudioSegment",
                               a |-> pWindow.startTime,
                               b |-> pWindow.endTime - pWindow.startTime])
  /\ \E ok \in BOOLEAN :
       IF ok /\ pToolkit
       THEN /\ pFiles' = pFiles \cup {SegmentFile}
            /\ ppc' = "asr_call"
            /\ UNCHANGED pErr
       ELSE /\ PThrow("extract")
            /\ UNCHANGED pFiles
  /\ UNCHANGED <<pMarkerTime, pAudioDuration, pToolkit, pProgress, pDirs, pCleanup,
                 pWindow, pSlides, psi, pImg, pTts, pSlideImages,
                 pSlideAudios, pResult, pStages>>
  /\ UNCHANGED notP

\* transcribeAudio(segmentPath, 0, endTime - startTime, callback) is called
CallTranscribe ==
  /\ ppc = "asr_call"
  /\ pCalls' = Append(pCalls, [fn |-> "transcribeAudio", a |-> 0,
                               b |-> pWindow.endTime - pWindow.startTime])
  /\ ppc' = "asr_wait"
  /\ asrFfmpeg' = pToolkit
  /\ startTime' = 0
  /\ endTime' = pWindow.endTime - pWindow.startTime
  /\ apc' = "start"
  /\ UNCHANGED <<segmentTasks, batchI, chunkState, promiseValue, allResults,
                 completedCount, transcript, asrOutcome, outOfOrder,
                 chunkFiles, asrProgress>>
  /\ UNCHANGED <<pMarkerTime, pAudioDuration, pToolkit, pErr, pProgress,
                 pDirs, pCleanup, pFiles, pWindow, pSlides, psi, pImg, pTts,
                 pSlideImages, pSlideAudios, pResult, pStages>>
  /\ UNCHANGED <<mvars, svars, nvars, gvars, vvars, tvars, kvars, ovars, cvars, dvars>>

\* await transcribeAudio(...) settles; on success onUpdate asr completed,
\* onProgress(20), onUpdate analyze processing
TranscribeSettled ==
  /\ ppc = "asr_wait"
  /\ apc \in {"done", "threw"}
  /\ IF apc = "done"
     THEN /\ pProgress' = Append(ProgressReported, 20)
          /\ pStages' = pStages \o <<StageEvent("asr", "completed"),
                                     StageEvent("analyze", "processing")>>
          /\ ppc' = "analyze"
          /\ UNCHANGED pErr
     ELSE /\ PThrow("ffmpeg")
          /\ pProgress' = ProgressReported
          /\ UNCHANGED pStages
  /\ AsrReset
  /\ UNCHANGED <<pMarkerTime, pAudioDuration, pToolkit, pDirs, pCleanup, pFiles,
                 pWindow, pCalls, pSlides, psi, pImg, pTts, pSlideImages,
                 pSlideAudios, pResult>>
  /\ UNCHANGED <<mvars, svars, nvars, gvars, vvars, tvars, kvars, ovars, cvars, dvars>>

\* await analyzeKnowledgePoint(transcript): never rejects; onUpdate analyze
\* completed, onProgress(30), onUpdate script processing
AnalyzeKnowledgePoint ==
  /\ ppc = "analyze"
  /\ pProgress' = Append(pProgress, 30)
  /\ pStages' = pStages \o <<StageEvent("analyze", "completed"),
                             StageEvent("script", "processing")>>
  /\ ppc' = "script"
  /\ UNCHANGED <<pMarkerTime, pAudioDuration, pToolkit, pErr, pDirs, pCleanup, pFiles,
                 pWindow, pCalls, pSlides, psi, pImg, pTts, pSlideImages,
                 pSlideAudios, pResult>>
  /\ UNCHANGED notP

GenerateScriptCompletesOnFailure ==
  /\ ppc = "script"
  /\ \/ /\ pSlides' \in
            UNION {[1..k -> PipelineSlideTexts] : k \in 0..MaxSlides}
        /\ pProgress' = Append(pProgress, 40)
        /\ pStages' = pStages \o <<StageEvent("script", "completed"),
                                   StageEvent("images", "processing"),
                                   StageEvent("tts", "processing")>>
        /\ psi' = 0
        /\ ppc' = "slides"
        /\ UNCHANGED pErr
     \/ /\ PThrow("script")
        /\ pStages' = Append(pStages, StageEvent("script", "completed"))
        /\ UNCHANGED <<pSlides, pProgress, psi>>
  /\ UNCHANGED <<pMarkerTime, pAudioDuration, pToolkit, pDirs, pCleanup, pFiles,
                 pWindow, pCalls, pImg, pTts, pSlideImages, pSlideAudios,
                 pResult>>
  /\ UNCHANGED notP

\* await generatePPTScript(...).  Resolved, with any number of slides:
\* onUpdate script completed, onProgress(40), onUpdate images / tts
\* processing.  Rejected (its prompt is built outside its try block, and
\* keyPoints.map throws for a keyPoints that is a non-empty string): the
\* catch block is entered
GenerateScript ==
  /\ ppc = "script"
  /\ \/ /\ pSlides' \in
            UNION {[1..k -> PipelineSlideTexts] : k \in 0..MaxSlides}
        /\ pProgress' = Append(pProgress, 40)
        /\ pStages' = pStages \o <<StageEvent("script", "completed"),
                                   StageEvent("images", "processing"),
                                   StageEvent("tts", "processing")>>
        /\ psi' = 0
        /\ ppc' = "slides"
        /\ UNCHANGED pErr
     \/ /\ PThrow("script")
        /\ UNCHANGED pStages
        /\ UNCHANGED <<pSlides, pProgress, psi>>
  /\ UNCHANGED <<pMarkerTime, pAudioDuration, pToolkit, pDirs, pCleanup, pFiles,
                 pWindow, pCalls, pImg, pTts, pSlideImages, pSlideAudios,
                 pResult>>
  /\ UNCHANGED notP

\* for (i < slides.length): onProgress(Math.round(40 + (i / totalSlides) * 30));
\* Promise.all([image task, tts task]): both run up to their first await
SlideBegin ==
  /\ ppc = "slides"
  /\ psi < Len(pSlides)
  /\ pProgress' = Append(pProgress, SlideProgress(psi, Len(pSlides)))
  /\ pImg' = [state |-> "inflight", outcome |-> "none"]
  /\ pTts' = [state |-> "inflight", outcome |-> "none"]
  /\ pCalls' = pCalls \o
       <<[fn |-> "generateImageToFile", a |-> psi, b |-> 0],
         [fn |-> "textToSpeechFile", a |-> psi, b |-> 0]>>
  /\ ppc' = "slide_wait"
  /\ UNCHANGED <<pMarkerTime, pAudioDuration, pToolkit, pErr, pDirs, pCleanup, pFiles,
                 pWindow, pSlides, psi, pSlideImages, pSlideAudios,
                 pResult, pStages>>
  /\ UNCHANGED notP

\* generateImageToFile settles.  Resolved: the image file is written.
\* Rejected: createPlaceholderImage renders the placeholder with sharp, or,
\* when sharp throws, returns the path without writing anything
ImageTaskSettled ==
  /\ ppc = "slide_wait"
  /\ pImg.state = "inflight"
  /\ \E outcome \in {"generated", "placeholder", "no_placeholder"} :
       /\ pImg' = [state |-> "settled", outcome |-> outcome]
       /\ pFiles' = IF outcome = "no_placeholder" THEN pFiles
                    ELSE pFiles \cup {InOutputDir(ImagePath(psi))}
  /\ UNCHANGED <<pMarkerTime, pAudioDuration, pToolkit, ppc, pErr, pProgress,
                 pDirs, pCleanup, pWindow, pCalls, pSlides, psi, pTts, pSlideImages,
                 pSlideAudios, pResult, pStages>>
  /\ UNCHANGED notP

\* textToSpeechFile settles.  Resolved: the audio file is written.
\* Rejected: createSilentAudio(audioPath, 5) runs ffmpeg and returns the
\* path whether ffmpeg succeeded or not
AudioTaskSettled ==
  /\ ppc = "slide_wait"
  /\ pTts.state = "inflight"
  /\ \E outcome \in {"spoken", "silent", "no_silent"} :
       /\ outcome = "silent" => pToolkit
       /\ pTts' = [state |-> "settled", outcome |-> outcome]
       /\ pFiles' = IF outcome = "no_silent" THEN pFiles
                    ELSE pFiles \cup {InOutputDir(AudioPath(psi))}
  /\ UNCHANGED <<pMarkerTime, pAudioDuration, pToolkit, ppc, pErr, pProgress,
                 pDirs, pCleanup, pWindow, pCalls, pSlides, psi, pImg, pSlideImages,
                 pSlideAudios, pResult, pStages>>
  /\ UNCHANGED notP

\* the value the image sub-task resolves with
ImageTaskResult(i, outcome) ==
  IF outcome = "generated"
  THEN [index |-> i, path |-> ImagePath(i), success |-> TRUE,
        error |-> "none"]
  ELSE [index |-> i, path |-> ImagePath(i), success |-> FALSE,
        error |-> "image"]

\* the value the tts sub-task resolves with
AudioTaskResult(i, outcome) ==
  IF outcome = "spoken"
  THEN [index |-> i, path |-> AudioPath(i), duration |-> TtsDuration,
        success |-> TRUE, error |-> "none"]
  ELSE [index |-> i, path |-> createSilentAudio(AudioPath(i), 5),
        duration |-> 5000, success |-> FALSE, error |-> "tts"]

\* the delay between two slides, in milliseconds
SlideDelayMs == 500

SlidePairJoinedSkipsDelay ==
  /\ ppc = "slide_wait"
  /\ pImg.state = "settled"
  /\ pTts.state = "settled"
  /\ pSlideImages' = Append(pSlideImages, ImageTaskResult(psi, pImg.outcome))
  /\ pSlideAudios' = Append(pSlideAudios, AudioTaskResult(psi, pTts.outcome))
  /\ pImg' = NoSubTask
  /\ pTts' = NoSubTask
  /\ ppc' = "slides"
  /\ psi' = psi + 1
  /\ UNCHANGED <<pMarkerTime, pAudioDuration, pToolkit, pErr, pProgress,
                 pDirs, pCleanup, pFiles, pWindow, pCalls, pSlides, pResult, pStages>>
  /\ UNCHANGED notP

\* Promise.all resolved: push both results; wait 500 ms unless this was the
\* last slide
SlidePairJoined ==
  /\ ppc = "slide_wait"
  /\ pImg.state = "settled"
  /\ pTts.state = "settled"
  /\ pSlideImages' = Append(pSlideImages, ImageTaskResult(psi, pImg.outcome))
  /\ pSlideAudios' = Append(pSlideAudios, AudioTaskResult(psi, pTts.outcome))
  /\ pImg' = NoSubTask
  /\ pTts' = NoSubTask
  /\ IF psi < Len(pSlides) - 1
     THEN ppc' = "delay" /\ UNCHANGED psi
     ELSE ppc' = "slides" /\ psi' = psi + 1
  /\ UNCHANGED <<pMarkerTime, pAudioDuration, pToolkit, pErr, pProgress,
                 pDirs, pCleanup, pFiles, pWindow, pCalls, pSlides, pResult, pStages>>
  /\ UNCHANGED notP

\* await new Promise(r => setTimeout(r, 500)) has resolved; i++
InterSlideDelay ==
  /\ ppc = "delay"
  /\ pCalls' = Append(pCalls, [fn |-> "setTimeout", a |-> SlideDelayMs,
                               b |-> psi])
  /\ psi' = psi + 1
  /\ ppc' = "slides"
  /\ UNCHANGED <<pMarkerTime, pAudioDuration, pToolkit, pErr, pProgress,
                 pDirs, pCleanup, pFiles, pWindow, pSlides, pImg, pTts,
                 pSlideImages, pSlideAudios, pResult, pStages>>
  /\ UNCHANGED notP

\* cleanupTempDir(tempDir): rmSync of the directory if it exists; a failure
\* of rmSync is logged and swallowed
DirsAfterCleanup(dirs, removed) ==
  IF TempDir \in dirs /\ removed THEN dirs \ {TempDir} ELSE dirs

FilesAfterCleanup(dirs, files, removed) ==
  IF TempDir \in dirs /\ removed
  THEN {f \in files : f.dir # TempDir}
  ELSE files

CleanupOutcome(dirs, removed) ==
  IF TempDir \notin dirs THEN "absent"
  ELSE IF removed THEN "removed" ELSE "failed"

\* try { if (existsSync(dirPath)) rmSync(dirPath, { recursive, force }) }
\* catch (error) { console.warn(...) }
cleanupTempDir(files) ==
  \E removed \in BOOLEAN :
    /\ pDirs' = DirsAfterCleanup(pDirs, removed)
    /\ pFiles' = FilesAfterCleanup(pDirs, files, removed)
    /\ pCleanup' = CleanupOutcome(pDirs, removed)

\* the subtitles of a slide of the result: let subtitles = slide.subtitles;
\* if ((!subtitles || subtitles.length === 0) && slide.script &&
\* slideAudios[i]?.duration) subtitles = generateSubtitlesFromScript(
\* slide.script, slideAudios[i].duration / 1000); source is history
ResultSubtitles(slide, audio) ==
  IF Len(slide.subtitles) > 0
  THEN [source |-> "author", cues |-> slide.subtitles]
  ELSE IF slide.script # <<>> /\ audio.duration # 0
  THEN [source |-> "script",
        cues |-> generateSubtitlesFromScript(slide.script,
                                             R(audio.duration, 1000))]
  ELSE [source |-> "none", cues |-> <<>>]

\* the result object of processTimeMarker
MarkerResult(videoPath) ==
  [success |-> TRUE,
   slides |-> [k \in 1..Len(pSlides) |->
                 [index |-> k,
                  subtitles |-> ResultSubtitles(pSlides[k], pSlideAudios[k]),
                  imagePath |-> pSlideImages[k].path,
                  audioPath |-> pSlideAudios[k].path,
                  audioDuration |-> pSlideAudios[k].duration]],
   video |-> videoPath]

\* onUpdate video completed; onProgress(100); cleanupTempDir(tempDir);
\* build the result; return
CompleteMarker(videoPath, files, log) ==
  /\ pStages' = Append(pStages, StageEvent("video", "completed"))
  /\ pProgress' = Append(log, 100)
  /\ cleanupTempDir(files)
  /\ pResult' = MarkerResult(videoPath)
  /\ ppc' = "returned"

\* slidesForVideo: what synthesizeVideo will find at the paths handed over
SlidesForVideo ==
  [k \in 1..Len(pSlides) |->
     VideoSlide(pSlides[k],
                InOutputDir(pSlideImages[k].path) \in pFiles,
                InOutputDir(pSlideAudios[k].path) \in pFiles,
                IF pSlideAudios[k].success THEN R(3, 1) ELSE R(5, 1))]

\* the slide loop ended: sort both lists by index (they are in index order),
\* onUpdate images / tts completed, onProgress(80), onUpdate video
\* processing; if (checkFFmpeg()) synthesizeVideo(...) is called, else the
\* video is skipped and the marker completes with filepath: null
CallSynthesize ==
  /\ ppc = "slides"
  /\ psi >= Len(pSlides)
  /\ LET log == Append(pProgress, 80)
         events == pStages \o <<StageEvent("images", "completed"),
                                StageEvent("tts", "completed"),
                                StageEvent("video", "processing")>>
     IN IF pToolkit
        THEN /\ pProgress' = log
             /\ pStages' = events
             /\ ppc' = "video_wait"
             /\ vSlides' = SlidesForVideo
             /\ vToolkit' = pToolkit
             /\ vpc' = "start"
             /\ UNCHANGED <<pDirs, pCleanup, pFiles, pResult>>
        ELSE /\ pStages' = Append(events, StageEvent("video", "completed"))
             /\ pProgress' = Append(log, 100)
             /\ cleanupTempDir(pFiles)
             /\ pResult' = MarkerResult(NoPath)
             /\ ppc' = "returned"
             /\ UNCHANGED <<vSlides, vToolkit, vpc>>
  /\ UNCHANGED <<vi, slideVideos, videoSubtitles, videoTime, videoFiles,
                 finalVideoPath, videoProgress, clipDurations, burnOutcome>>
  /\ UNCHANGED <<pMarkerTime, pAudioDuration, pToolkit, pErr, pWindow, pCalls,
                 pSlides, psi, pImg, pTts, pSlideImages, pSlideAudios>>
  /\ UNCHANGED <<mvars, avars, svars, nvars, gvars, tvars, kvars, ovars, cvars, dvars>>

\* where a file written by synthesizeVideo lies: outputPath is
\* final_video.mp4 of the output directory, everything else is in
\* config.tempDir
VideoFileOnDisk(f) ==
  [dir |-> IF f.path = OutputPath THEN OutputDir ELSE SharedTempDir,
   file |-> f.path.kind, n |-> f.path.n]

\* await synthesizeVideo(...) settles; on success the marker completes
SynthesizeSettled ==
  /\ ppc = "video_wait"
  /\ vpc \in {"returned", "rejected"}
  /\ LET files == pFiles \cup {VideoFileOnDisk(f) : f \in videoFiles}
     IN IF vpc = "returned"
        THEN /\ CompleteMarker(finalVideoPath, files, ProgressReported)
             /\ UNCHANGED pErr
        ELSE /\ PThrow("video")
             /\ pFiles' = files
             /\ pProgress' = ProgressReported
             /\ UNCHANGED <<pDirs, pCleanup, pResult, pStages>>
  /\ VideoReset
  /\ UNCHANGED <<pMarkerTime, pAudioDuration, pToolkit, pWindow, pCalls,
                 pSlides, psi, pImg, pTts, pSlideImages, pSlideAudios>>
  /\ UNCHANGED <<mvars, avars, svars, nvars, gvars, tvars, kvars, ovars, cvars, dvars>>

CatchRethrowsWithoutCleanup ==
  /\ ppc = "thrown"
  /\ ppc' = "rejected"
  /\ UNCHANGED <<pMarkerTime, pAudioDuration, pToolkit, pErr, pProgress,
                 pDirs, pCleanup, pFiles, pWindow, pCalls, pSlides, psi, pImg, pTts,
                 pSlideImages, pSlideAudios, pResult, pStages>>
  /\ UNCHANGED notP

\* catch (error) { cleanupTempDir(tempDir); throw error; }
CatchCleanupRethrow ==
  /\ ppc = "thrown"
  /\ cleanupTempDir(pFiles)
  /\ ppc' = "rejected"
  /\ UNCHANGED <<pMarkerTime, pAudioDuration, pToolkit, pErr, pProgress,
                 pWindow, pCalls, pSlides, psi, pImg, pTts, pSlideImages,
                 pSlideAudios, pResult, pStages>>
  /\ UNCHANGED notP

PNext ==
  \/ CreateDirectories
  \/ ProbeSource
  \/ CutWindow
  \/ CallTranscribe
  \/ TranscribeStart
  \/ BatchDispatch
  \/ ChunkSettle
  \/ BatchJoin
  \/ TranscribeFinish
  \/ TranscribeSettled
  \/ AnalyzeKnowledgePoint
  \/ GenerateScript
  \/ SlideBegin
  \/ ImageTaskSettled
  \/ AudioTaskSettled
  \/ SlidePairJoined
  \/ InterSlideDelay
  \/ CallSynthesize
  \/ SynthesizeStart
  \/ ClipBegin
  \/ ClipSettle
  \/ ConcatBegin
  \/ ConcatSettle
  \/ BurnSettle
  \/ SynthesizeSettled
  \/ CatchCleanupRethrow

SpecPipeline == PInit /\ [][PNext]_vars

(***************************************************************************)
(* Two tasks at a time: the temporary files of config.tempDir             *)
(* (asr.js transcribeAudio, videoSynth.js synthesizeVideo)                 *)
(***************************************************************************)
\* the chunk counts tried; each fits one batch of CONCURRENT_LIMIT
ConcurrentChunkCounts == {1, 2}

\* path.join(tempDir, `segment_${Date.now()}_${i}.mp3`)
SegmentFileName(now, i) == [kind |-> "segment", at |-> now, i |-> i]

\* path.join(tempDir, `merged_${Date.now()}.mp4`)
MergedFileName(now) == [kind |-> "merged", at |-> now, i |-> 0]

\* writing a file of config.tempDir: an existing file of that name is
\* replaced
WriteTemp(files, names, task) ==
  {f \in files : f.name \notin names} \cup
    {[name |-> nm, owner |-> task] : nm \in names}

\* if (fs.existsSync(file)) fs.unlinkSync(file)
UnlinkTemp(files, nm) == {f \in files : f.name # nm}

\* the files among names that another task wrote
Foreign(files, names, task) ==
  {f \in files : f.name \in names /\ f.owner # task}

Interfered(files, names, task, op) ==
  {[by |-> task, op |-> op, name |-> f.name] :
     f \in Foreign(files, names, task)}

CStart ==
  /\ clock = 0
  /\ sharedTemp = {}
  /\ cpc = [t \in CTasks |-> "start"]
  /\ segmentFiles = [t \in CTasks |-> <<>>]
  /\ segmentsInFlight = [t \in CTasks |-> {}]
  /\ mergedFile = [t \in CTasks |-> NoTempName]
  /\ interference = {}

CInit == CStart /\ MIdle /\ AIdle /\ SIdle /\ NIdle /\ GIdle /\ VIdle /\ PIdle /\ TIdle /\ KIdle /\ OIdle /\ DIdle

\* the clock moves on between two steps
ClockTick ==
  /\ clock < MaxClock
  /\ clock' = clock + 1
  /\ UNCHANGED <<sharedTemp, cpc, segmentFiles, segmentsInFlight, mergedFile,
                 interference>>
  /\ UNCHANGED notC

\* transcribeAudio of one task up to its first await: the loop builds the
\* chunk names from Date.now() and i, then batch.map(processSegment) runs
\* extractAudioSegment (execSync) for every chunk of the batch
TranscribeBegins(t) ==
  /\ cpc[t] = "start"
  /\ \E n \in ConcurrentChunkCounts :
       LET names == [k \in 1..n |-> SegmentFileName(clock, k - 1)]
           written == {names[k] : k \in 1..n}
       IN /\ segmentFiles' = [segmentFiles EXCEPT ![t] = names]
          /\ segmentsInFlight' = [segmentsInFlight EXCEPT ![t] = 1..n]
          /\ interference' =
               interference \cup Interfered(sharedTemp, written, t, "write")
          /\ sharedTemp' = WriteTemp(sharedTemp, written, t)
  /\ cpc' = [cpc EXCEPT ![t] = "asr"]
  /\ UNCHANGED <<clock, mergedFile>>
  /\ UNCHANGED notC

\* processSegment of chunk k ends (resolved or caught): finally
\* { if (fs.existsSync(segmentFile)) fs.unlinkSync(segmentFile) }; after the
\* last chunk the task goes on to the later stages
SegmentFinally(t, k) ==
  /\ cpc[t] = "asr"
  /\ k \in segmentsInFlight[t]
  /\ interference' =
       interference \cup
         Interfered(sharedTemp, {segmentFiles[t][k]}, t, "unlink")
  /\ sharedTemp' = UnlinkTemp(sharedTemp, segmentFiles[t][k])
  /\ segmentsInFlight' = [segmentsInFlight EXCEPT ![t] = @ \ {k}]
  /\ cpc' = [cpc EXCEPT
               ![t] = IF segmentsInFlight[t] = {k} THEN "video" ELSE "asr"]
  /\ UNCHANGED <<clock, segmentFiles, mergedFile>>
  /\ UNCHANGED notC

\* synthesizeVideo after the clips: mergedVideoPath is built from
\* Date.now() and concatenateVideos starts ffmpeg
MergeBegins(t) ==
  /\ cpc[t] = "video"
  /\ mergedFile' = [mergedFile EXCEPT ![t] = MergedFileName(clock)]
  /\ cpc' = [cpc EXCEPT ![t] = "concat"]
  /\ UNCHANGED <<clock, sharedTemp, segmentFiles, segmentsInFlight,
                 interference>>
  /\ UNCHANGED notC

\* ffmpeg of concatenateVideos exits (-y: an existing file is overwritten)
MergeWritten(t) ==
  /\ cpc[t] = "concat"
  /\ interference' =
       interference \cup Interfered(sharedTemp, {mergedFile[t]}, t, "write")
  /\ sharedTemp' = WriteTemp(sharedTemp, {mergedFile[t]}, t)
  /\ cpc' = [cpc EXCEPT ![t] = "merged"]
  /\ UNCHANGED <<clock, segmentFiles, segmentsInFlight, mergedFile>>
  /\ UNCHANGED notC

\* the subtitles were burnt into outputPath: if (fs.existsSync(
\* mergedVideoPath) && mergedVideoPath !== finalVideoPath) unlink it
MergedRemoved(t) ==
  /\ cpc[t] = "merged"
  /\ interference' =
       interference \cup Interfered(sharedTemp, {mergedFile[t]}, t, "unlink")
  /\ sharedTemp' = UnlinkTemp(sharedTemp, mergedFile[t])
  /\ cpc' = [cpc EXCEPT ![t] = "done"]
  /\ UNCHANGED <<clock, segmentFiles, segmentsInFlight, mergedFile>>
  /\ UNCHANGED notC

CNext ==
  \/ ClockTick
  \/ \E t \in CTasks : TranscribeBegins(t)
  \/ \E t \in CTasks, k \in 1..2 : SegmentFinally(t, k)
  \/ \E t \in CTasks : MergeBegins(t)
  \/ \E t \in CTasks : MergeWritten(t)
  \/ \E t \in CTasks : MergedRemoved(t)

SpecConcurrent == CInit /\ [][CNext]_vars

(***************************************************************************)
(* The task endpoints (server/index.js) and the output directories        *)
(***************************************************************************)
\* the artifacts a marker leaves in its output directory
MarkerArtifacts == {"slide_1.jpg", "slide_1_audio.mp3", "final_video.mp4"}

\* the marker ids generateId() has handed out
MarkerIdsUsed == UNION {taskRecords[id].results : id \in ServerIds}

\* generateId(): an id not handed out before
generateId == CHOOSE m \in MarkerIds \ MarkerIdsUsed :
                \A o \in MarkerIds \ MarkerIdsUsed : m.n <= o.n

DStart ==
  /\ tasks = {}
  /\ taskRecords = [id \in ServerIds |-> NoRecord]
  /\ outputFiles = {}
  /\ deletedMarkers = {}
  /\ servedAfterDelete = {}

DInit == DStart /\ MIdle /\ AIdle /\ SIdle /\ NIdle /\ GIdle /\ VIdle /\ PIdle /\ TIdle /\ KIdle /\ OIdle /\ CIdle

\* POST /api/process: the task object is created with status 'processing'
\* and stored under a new id; processAudioInBackground starts
AcceptTask(id) ==
  /\ taskRecords[id].status = "none"
  /\ \E n \in 1..2 :
       taskRecords' = [taskRecords EXCEPT
                        ![id] = [status |-> "processing", total |-> n,
                                 results |-> {}]]
  /\ tasks' = tasks \cup {id}
  /\ UNCHANGED <<outputFiles, deletedMarkers, servedAfterDelete>>
  /\ UNCHANGED notD

\* processTimeMarker of the next marker of a task completes: it made
\* taskId = generateId(), outputDir = config.outputDir/taskId, wrote its
\* artifacts there, and its result (with that taskId in the urls) is merged
\* into task.results. The task object is updated whether or not the Map
\* still holds it
MarkerCompletes(id) ==
  /\ taskRecords[id].status = "processing"
  /\ Cardinality(taskRecords[id].results) < taskRecords[id].total
  /\ LET taskId == generateId
     IN /\ outputFiles' = outputFiles \cup
             {[dir |-> taskId, file |-> f] : f \in MarkerArtifacts}
        /\ taskRecords' = [taskRecords EXCEPT ![id].results = @ \cup {taskId}]
  /\ UNCHANGED <<tasks, deletedMarkers, servedAfterDelete>>
  /\ UNCHANGED notD

\* processMultipleMarkers resolved: task.status = 'completed'
TaskCompletes(id) ==
  /\ taskRecords[id].status = "processing"
  /\ Cardinality(taskRecords[id].results) = taskRecords[id].total
  /\ taskRecords' = [taskRecords EXCEPT ![id].status = "completed"]
  /\ UNCHANGED <<tasks, outputFiles, deletedMarkers, servedAfterDelete>>
  /\ UNCHANGED notD

\* DELETE /api/tasks/:taskId for an id the Map holds (404 otherwise):
\* outputDir = path.join(config.outputDir, taskId) is removed if it exists,
\* then tasks.delete(taskId). deletedMarkers notes the marker ids of the
\* results of a task that had completed
DeleteTask(id) ==
  /\ id \in tasks
  /\ outputFiles' = {f \in outputFiles : f.dir # id}
  /\ tasks' = tasks \ {id}
  /\ deletedMarkers' =
       IF taskRecords[id].status = "completed"
       THEN deletedMarkers \cup taskRecords[id].results
       ELSE deletedMarkers
  /\ UNCHANGED <<taskRecords, servedAfterDelete>>
  /\ UNCHANGED notD

\* GET /api/files/:taskId/:filename: the file of
\* config.outputDir/taskId/filename is sent if it exists, 404 otherwise
\* (a request changes no state; the step notes the ones answered with a
\* file of a deleted task)
ServeFile(id, filename) ==
  /\ [dir |-> id, file |-> filename] \in outputFiles
  /\ id \in deletedMarkers
  /\ servedAfterDelete' =
       servedAfterDelete \cup {[dir |-> id, file |-> filename]}
  /\ servedAfterDelete' # servedAfterDelete
  /\ UNCHANGED <<tasks, taskRecords, outputFiles, deletedMarkers>>
  /\ UNCHANGED notD

DNext ==
  \/ \E id \in ServerIds : AcceptTask(id)
  \/ \E id \in ServerIds : MarkerCompletes(id)
  \/ \E id \in ServerIds : TaskCompletes(id)
  \/ \E id \in ServerIds : DeleteTask(id)
  \/ \E id \in ServerIds \cup MarkerIds, filename \in MarkerArtifacts :
       ServeFile(id, filename)

SpecTasks == DInit /\ [][DNext]_vars

(***************************************************************************)
(* Claims about transcribeAudio                                            *)
(***************************************************************************)
\* C2: whatever the completion order of the speech-to-text calls, the
\* transcript returned is the texts the chunks resolved with, joined by
\* newline in ascending chunk-index order.
C2_TranscriptInIndexOrder ==
  apc = "done" =>
    transcript =
      JoinNewline([j \in 1..Len(segmentTasks) |-> promiseValue[j].text])

\* C2 witness: four chunks, two batches, a chunk settled before a lower one,
\* distinct texts, transcribeAudio returned
C2_Witness ==
  /\ apc = "done"
  /\ outOfOrder
  /\ Len(segmentTasks) = 4
  /\ promiseValue[1].text = <<"a">>
  /\ promiseValue[2].text = <<"b">>
  /\ promiseValue[4].text = <<"a">>

\* C4: never more than 3 speech-to-text requests are in flight, and a chunk
\* of a later batch is not dispatched while a chunk of an earlier batch is
\* unsettled.
C4_BoundedBatches ==
  /\ Cardinality({j \in 1..Len(chunkState) : chunkState[j] = "inflight"}) <= 3
  /\ \A j, q \in 1..Len(chunkState) :
       (chunkState[j] # "pending" /\ (q - 1) \div 3 < (j - 1) \div 3)
         => chunkState[q] = "settled"

\* C4 witness: the fourth chunk (second batch) is in flight after a first
\* batch in which one chunk failed and one succeeded
C4_Witness ==
  /\ Len(chunkState) = 4
  /\ chunkState[4] = "inflight"
  /\ \E q \in 1..3 : asrOutcome[q] \in {"extract_failed", "call_failed"}
  /\ \E q \in 1..3 : asrOutcome[q] = "text"

\* C5: a chunk whose extraction or speech-to-text call failed resolves with
\* the placeholder naming it by its 1-based number, a silent chunk resolves
\* with empty text; transcribeAudio rejects only for a missing toolkit,
\* before any chunk exists, and otherwise goes on until every chunk is
\* settled and it returns.
C5_ChunkFailureIsolated ==
  /\ \A j \in 1..Len(chunkState) :
       chunkState[j] = "settled" =>
         /\ asrOutcome[j] \in {"extract_failed", "call_failed"} =>
              /\ promiseValue[j].text =
                   <<"[", "segment", " ", ToString(j), " ", "failed", "]">>
              /\ ~promiseValue[j].success
         /\ asrOutcome[j] = "silent" =>
              /\ promiseValue[j].text = <<>>
              /\ promiseValue[j].success
  /\ apc = "threw" => (~asrFfmpeg /\ segmentTasks = <<>>)
  /\ apc = "done" =>
       /\ \A j \in 1..Len(chunkState) : chunkState[j] = "settled"
       /\ Len(allResults) = Len(segmentTasks)

\* C5 witness: four chunks, every one of them failed (some in extraction,
\* some in the call), and transcribeAudio returned
C5_Witness ==
  /\ apc = "done"
  /\ Len(segmentTasks) = 4
  /\ \A j \in 1..4 : asrOutcome[j] \in {"extract_failed", "call_failed"}
  /\ asrOutcome[1] = "extract_failed"
  /\ asrOutcome[2] = "call_failed"

\* the sum of the segmentLength of the first k tasks
RECURSIVE SumSegmentLengths(_)
SumSegmentLengths(k) ==
  IF k = 0 THEN 0 ELSE SumSegmentLengths(k - 1) + segmentTasks[k].segmentLength

\* C31: over a window of duration D transcribeAudio builds exactly
\* ceil(D / 60) chunks; chunk j starts at start + 60 * j, lasts at most 60 s
\* and ends where chunk j + 1 starts; the lengths sum to D, the last chunk
\* ends at the end of the window and only it can be shorter than 60 s.
C31_ChunksTileWindow ==
  apc \in {"batch", "await", "done"} =>
    LET D == endTime - startTime
        n == Len(segmentTasks)
    IN /\ 60 * n >= D
       /\ 60 * (n - 1) < D
       /\ \A j \in 1..n :
            /\ segmentTasks[j].index = j - 1
            /\ segmentTasks[j].segmentStart = startTime + 60 * (j - 1)
            /\ segmentTasks[j].segmentLength \in 1..60
            /\ j < n => segmentTasks[j].segmentLength = 60
            /\ j < n => segmentTasks[j].segmentStart
                          + segmentTasks[j].segmentLength
                        = segmentTasks[j + 1].segmentStart
       /\ n > 0 => segmentTasks[n].segmentStart + segmentTasks[n].segmentLength
                    = endTime
       /\ SumSegmentLengths(n) = D
       /\ Len(chunkState) = n

\* C31 witness: a window of 225 s starting at 30 s was cut into four chunks,
\* the last one 45 s long, and all four were dispatched and settled
C31_Witness ==
  /\ apc = "done"
  /\ startTime = 30
  /\ endTime = 255
  /\ Len(segmentTasks) = 4
  /\ segmentTasks[4].segmentLength = 45
  /\ \A j \in 1..4 : chunkState[j] = "settled"

StartsNonDecreasing ==
  \A i \in 1..(Len(subtitles) - 1) :
    RLe(subtitles[i].start, subtitles[i + 1].start)

LastCue == subtitles[Len(subtitles)]

LastCueEnd == RAdd(LastCue.start, LastCue.duration)

\* the time left when the loop reaches the last segment: totalDuration minus
\* the start of the first cue of that segment
RemainingForLastSegment ==
  LET first == CHOOSE i \in 1..Len(subtitles) :
                 /\ subtitles[i].segment = LastCue.segment
                 /\ \A j \in 1..(i - 1) : subtitles[j].segment # LastCue.segment
  IN RSub(totalDuration, subtitles[first].start)

CueEnd(c) == RAdd(c.start, c.duration)

C7_Original ==
  spc = "returned" =>
    \A i \in 1..(Len(subtitles) - 1) :
      /\ RLe(R(3, 2), subtitles[i].duration)
      /\ RLe(subtitles[i].duration, R(8, 1))

\* C7 amended: every cue lasts at least 1 s; a cue of a segment other than
\* the last lasts at most 8 s, and at least 1.5 s when its segment is not
\* comma-split.
C7_ClampedDurations ==
  spc = "returned" =>
    \A i \in 1..Len(subtitles) :
      LET c == subtitles[i] IN
      /\ RLe(R(1, 1), c.duration)
      /\ c.segment < LastCue.segment =>
           /\ RLe(c.duration, R(8, 1))
           /\ c.parts = 1 => RLe(R(3, 2), c.duration)

\* C7 witness: a comma-split segment that is not the last one, with a cue
\* shorter than 1.5 s
C7_Witness ==
  /\ spc = "returned"
  /\ \E i \in 1..Len(subtitles) :
       /\ subtitles[i].segment < LastCue.segment
       /\ subtitles[i].parts >= 2
       /\ RLt(subtitles[i].duration, R(3, 2))

(***************************************************************************)
(* Claims about generatePPTScript and normalizeImagePrompt                 *)
(***************************************************************************)
\* C8: for any language-model response generatePPTScript does not throw and
\* returns at least 1 slide, every slide with a non-empty title and a
\* non-empty imagePrompt.
C8_ScriptNeverEmpty ==
  /\ gpc # "threw"
  /\ gpc = "returned" =>
       /\ Len(pptScript) >= 1
       /\ \A k \in 1..Len(pptScript) :
            pptScript[k].title # <<>> /\ pptScript[k].imagePrompt # <<>>

\* C9: applying the normalizer to its own output changes nothing.
C9_NormalizeIdempotent ==
  npc = "twice" => twice = once

\* C9 witness: a prompt without the style name got the prefix the first
\* time and was left alone the second time
C9_Witness ==
  /\ npc = "twice"
  /\ prompt # <<>>
  /\ once = StylePrefix \o prompt
  /\ Includes(prompt, <<"z", "o", "o">>)

(***************************************************************************)
(* Claims about synthesizeVideo                                            *)
(***************************************************************************)
\* the sum of the clip durations of slides 0..i-1
RECURSIVE SlideOffset(_)
SlideOffset(i) ==
  IF i = 0 THEN R(0, 1) ELSE RAdd(SlideOffset(i - 1), clipDurations[i])

\* the cues of the global list that were appended for slide i
CuesOfSlide(i) == SelectSeq(videoSubtitles, LAMBDA c : c.slide = i)

\* the first source of cues the slide has: its script text, else its
\* author-provided list, else its caption
PreferredSource(slide) ==
  IF slide.script # <<>> THEN "script"
  ELSE IF slide.subtitles # <<>> THEN "author"
  ELSE IF slide.subtitle # <<>> THEN "caption"
  ELSE "none"

\* the texts the preferred source supplies for a clip lasting duration
PreferredTexts(slide, duration) ==
  CASE PreferredSource(slide) = "script" ->
         LET auto == generateSubtitlesFromScript(slide.script, duration)
         IN [k \in 1..Len(auto) |-> auto[k].text]
    [] PreferredSource(slide) = "author" ->
         [k \in 1..Len(slide.subtitles) |-> slide.subtitles[k].text]
    [] PreferredSource(slide) = "caption" -> <<slide.subtitle>>
    [] OTHER -> <<>>

\* C16: the cues of a slide come from its script text if there is one, else
\* from its author-provided list, else from its caption; every cue of
\* slide i starts at the sum of the clip durations of the slides before i
\* plus its start inside the slide; the slides are taken in input order.
C16_CuePriorityAndShift ==
  /\ Len(clipDurations) = vi
  /\ \A i \in 0..(vi - 1) :
       LET cues == CuesOfSlide(i)
           slide == vSlides[i + 1]
       IN /\ \A k \in 1..Len(cues) :
               /\ cues[k].source = PreferredSource(slide)
               /\ cues[k].start = RAdd(SlideOffset(i), cues[k].rel)
          /\ [k \in 1..Len(cues) |-> cues[k].text]
               = PreferredTexts(slide, clipDurations[i + 1])
          /\ PreferredSource(slide) = "author" =>
               \A k \in 1..Len(cues) :
                 cues[k].duration =
                   IF TotalSubDuration(slide.subtitles) > 0
                   THEN RScale(clipDurations[i + 1],
                               DurationOr2(slide.subtitles[k]),
                               TotalSubDuration(slide.subtitles))
                   ELSE R(DurationOr2(slide.subtitles[k]), 1)
  /\ \A j, k \in 1..Len(videoSubtitles) :
       /\ videoSubtitles[j].slide < vi
       /\ j < k => videoSubtitles[j].slide <= videoSubtitles[k].slide

\* C16 witness: a video of two slides is returned; the first slide has a
\* script and an author-provided list and got the script's cues, the
\* second got its rescaled author-provided cues, shifted by the first clip
C16_Witness ==
  /\ vpc = "returned"
  /\ Len(vSlides) = 2
  /\ vSlides[1].script # <<>> /\ vSlides[1].subtitles # <<>>
  /\ Len(CuesOfSlide(0)) = 2
  /\ vSlides[2].script = <<>> /\ Len(vSlides[2].subtitles) = 2
  /\ \E k \in 1..Len(videoSubtitles) :
       /\ videoSubtitles[k].slide = 1
       /\ videoSubtitles[k].source = "author"
       /\ RLt(clipDurations[1], videoSubtitles[k].start)

\* the sum of the durations of a list of cues
RECURSIVE SumDurations(_)
SumDurations(cues) ==
  IF cues = <<>> THEN R(0, 1)
  ELSE RAdd(Head(cues).duration, SumDurations(Tail(cues)))

\* the cues start at from and each starts where the one before it ends
Contiguous(cues, from) ==
  /\ cues # <<>> => cues[1].start = from
  /\ \A k \in 1..(Len(cues) - 1) :
       cues[k + 1].start = RAdd(cues[k].start, cues[k].duration)

\* the slides rendered so far that have no script and an author-provided list
AuthorSlides ==
  {i \in 0..(vi - 1) :
     vSlides[i + 1].script = <<>> /\ vSlides[i + 1].subtitles # <<>>}

\* C30 as stated: for a slide without script that carries author-provided
\* subtitles, the durations of its cues sum to the duration of its clip and
\* the cues are contiguous from the slide's offset, for any provided
\* durations.
C30_Original ==
  \A i \in AuthorSlides :
    /\ SumDurations(CuesOfSlide(i)) = clipDurations[i + 1]
    /\ Contiguous(CuesOfSlide(i), SlideOffset(i))

\* C30, amended: the cues of such a slide are one per provided subtitle and
\* contiguous from the slide's offset; their durations sum to the duration
\* of the clip whenever no provided duration is negative (a zero or missing
\* duration counts as 2 s before scaling), and more generally whenever the
\* provided durations, so counted, have a positive total; when that total is
\* not positive the provided durations are used unscaled.
C30_RescaledWhenTotalPositive ==
  \A i \in AuthorSlides :
    LET subs == vSlides[i + 1].subtitles
        cues == CuesOfSlide(i)
        counted == [k \in 1..Len(subs) |->
                      IF subs[k].duration = 0 THEN 2 ELSE subs[k].duration]
        sum[k \in 0..Len(subs)] ==
          IF k = 0 THEN 0 ELSE sum[k - 1] + counted[k]
    IN /\ Len(cues) = Len(subs)
       /\ Contiguous(cues, SlideOffset(i))
       /\ (\A k \in 1..Len(subs) : subs[k].duration >= 0) =>
            SumDurations(cues) = clipDurations[i + 1]
       /\ sum[Len(subs)] > 0 => SumDurations(cues) = clipDurations[i + 1]
       /\ sum[Len(subs)] <= 0 =>
            \A k \in 1..Len(subs) : cues[k].duration = R(counted[k], 1)

\* C30 witness: the second slide of a video has no script and one
\* author-provided subtitle of duration 0; its cue starts at the end of the
\* first clip and lasts as long as the second clip
C30_Witness ==
  /\ vi = 2
  /\ 1 \in AuthorSlides
  /\ vSlides[2].subtitles[1].duration = 0
  /\ Len(CuesOfSlide(1)) = 1
  /\ CuesOfSlide(1)[1].start = clipDurations[1]
  /\ CuesOfSlide(1)[1].duration = clipDurations[2]

\* C17: when the subtitle burn-in fails, synthesizeVideo does not reject:
\* it returns, and the file it names as its output exists and holds the
\* merged video without subtitles (the cleanup has not removed it).
C17_BurnFailureDeliversMerged ==
  burnOutcome \in {"failed", "rejected"} =>
    /\ vpc = "returned"
    /\ [path |-> finalVideoPath, content |-> "merged"] \in videoFiles

\* C17 witness: ffmpeg failed to burn the subtitles in and the merged video
\* in the temporary directory is what was returned
C17_Witness ==
  /\ burnOutcome = "failed"
  /\ vpc = "returned"
  /\ finalVideoPath = MergedPath
  /\ \A f \in videoFiles : f.path = MergedPath

(***************************************************************************)
(* Claims about processMultipleMarkers / processTimeMarker                 *)
(***************************************************************************)
IsTerminal(u) == u.step \in {"completed", "failed"}

\* C1: processAllMarkers never rejects and never gets stuck; when it
\* returns, results has exactly one entry per marker, in marker order, entry
\* k carrying markerTimes[k]; the entry is {markerTime, success:false, error}
\* exactly when that marker's processing threw and a successful result
\* otherwise, and every marker was started whatever happened to earlier ones.
C1_MarkerIsolation ==
  /\ mpc # "rejected"
  /\ mpc # "returned" => ENABLED MNext
  /\ Len(results) <= total
  /\ mpc = "returned" =>
       /\ Len(results) = total
       /\ \A k \in 1..total :
            /\ results[k].markerTime = markerTimes[k]
            /\ IF (k - 1) \in failedMarkers
               THEN /\ DOMAIN results[k] = {"markerTime", "success", "error"}
                    /\ results[k].success = FALSE
               ELSE /\ results[k].success = TRUE
                    /\ {"slides", "video"} \subseteq DOMAIN results[k]
            /\ \E p \in 1..Len(updates) :
                 updates[p].index = k - 1 /\ updates[p].step = "start"

\* C1 witness: the first of two markers failed, the second one was still
\* processed and succeeded, and the run returned
C1_Witness ==
  /\ mpc = "returned"
  /\ total = 2
  /\ failedMarkers = {0}
  /\ ~results[1].success /\ results[2].success

\* C3: markers are processed one at a time: a marker's 'start' update comes
\* after every update of the earlier markers and directly after the previous
\* marker's terminal update; every update of a marker is preceded by its
\* 'start'; a terminal update (completed or failed) is the last update of its
\* marker, and every finished marker has exactly one.
C3_SequentialMarkers ==
  /\ \A p \in 1..Len(updates) :
       LET u == updates[p] IN
       /\ u.step = "start" =>
            /\ \A q \in 1..(p - 1) : updates[q].index < u.index
            /\ u.index > 0 =>
                 /\ p > 1
                 /\ IsTerminal(updates[p - 1])
                 /\ updates[p - 1].index = u.index - 1
       /\ u.step # "start" =>
            \E q \in 1..(p - 1) :
              updates[q].index = u.index /\ updates[q].step = "start"
       /\ IsTerminal(u) =>
            \A q \in (p + 1)..Len(updates) : updates[q].index # u.index
  /\ \A k \in 0..(mi - 1) :
       Cardinality({p \in 1..Len(updates) :
                      updates[p].index = k /\ IsTerminal(updates[p])}) = 1
  /\ \A p \in 1..Len(updates) :
       (updates[p].index = mi /\ mpc # "returned") => ~IsTerminal(updates[p])

\* C3 witness: a run over two markers returned, with a completed and a
\* failed marker among them
C3_Witness ==
  /\ mpc = "returned"
  /\ total = 2
  /\ \E p, q \in 1..Len(updates) :
       updates[p].step = "completed" /\ updates[q].step = "failed"

C14_TaskFailsOnlyBeforeMarkers ==
  /\ taskStatus \in {"processing", "completed", "failed"}
  /\ taskStatus = "failed" => (mi = 0 /\ updates = <<>>)
  /\ failedMarkers # {} => taskStatus # "failed"
  /\ mpc \in {"returned", "rejected"} => mpc = "returned"
  /\ taskStatus = "completed" =>
       /\ Len(taskResults) = total
       /\ \A k \in 1..total :
            /\ taskResults[k].markerTime = markerTimes[k]
            /\ taskResults[k].success = ((k - 1) \notin failedMarkers)
            /\ ~taskResults[k].success => taskResults[k].error # "none"

\* C14 witness: a completed task of two markers of which exactly the first
\* threw
C14_Witness ==
  /\ taskStatus = "completed"
  /\ total = 2
  /\ failedMarkers = {0}
  /\ ~taskResults[1].success
  /\ taskResults[2].success

\* C32: while the batch runs, the updates delivered in one step all carry
\* the index of the marker being processed and change only that entry of
\* the task's results list: every other entry is left as it was, no entry is
\* removed, and a field once merged into an entry stays in it (started stays
\* true).
C32_UpdateTouchesOwnEntry ==
  [][LET new == SubSeq(updates', Len(updates) + 1, Len(updates'))
         touched == {new[k].index + 1 : k \in 1..Len(new)}
     IN (taskStatus' = "processing") =>
          (/\ touched \subseteq {mi + 1}
           /\ Len(taskResults') >= Len(taskResults)
           /\ \A j \in 1..Len(taskResults) :
                /\ j \notin touched => taskResults'[j] = taskResults[j]
                /\ DOMAIN taskResults[j] \subseteq DOMAIN taskResults'[j]
                /\ taskResults'[j].started
                /\ taskResults'[j].markerTime = taskResults[j].markerTime)]_vars

\* C32 witness: the batch is still running, the first marker's entry holds
\* its failure and the second marker's entry its completion, both still
\* marked started
C32_Witness ==
  /\ taskStatus = "processing"
  /\ Len(taskResults) = 2
  /\ taskResults[1].step = "failed"
  /\ taskResults[1].started
  /\ taskResults[2].step = "completed"
  /\ taskResults[2].started

\* C33: when every awaited call settles, an accepted task eventually leaves
\* 'processing' for 'completed' or 'failed'; a terminal status never changes
\* afterwards; and task.progress is 100 whenever the status is 'completed'
C33_TaskTerminates ==
  /\ <>(taskStatus \in {"completed", "failed"})
  /\ [][(taskStatus \in {"completed", "failed"}) => (taskStatus' = taskStatus)]_vars
  /\ [](taskStatus = "completed" => taskProgress = 100)

C33_Witness ==
  /\ taskStatus = "completed"
  /\ taskProgress = 100
  /\ Len(markerTimes) = 2
  /\ failedMarkers = {1}
  /\ Len(taskResults) = 2

(***************************************************************************)
(* Claims about the overall progress of processMultipleMarkers             *)
(***************************************************************************)
\* C25: the overall progress over N markers never decreases and stays within
\* 0..100, for every N: the base value of marker i + 1 is never lower than
\* the last value reported during marker i.
C25_OverallProgressMonotone ==
  /\ oPrev <= oLast
  /\ oLast \in 0..100

(***************************************************************************)
(* Claims about analyzeKnowledgePoint                                      *)
(***************************************************************************)
\* C21: whatever callLLM came back with, analyzeKnowledgePoint returns an
\* object whose knowledgePoint is a non-empty string, whose summary and
\* subject are strings and whose keyPoints is a list.
C21_AnalysisAlwaysUsable ==
  kpc = "returned" =>
    /\ analysis.knowledgePoint.t = "str"
    /\ analysis.knowledgePoint.v # <<>>
    /\ analysis.summary.t = "str"
    /\ analysis.subject.t = "str"
    /\ analysis.keyPoints.t = "list"

\* C22: the subject of the analysis returned is one of the eight subjects
\* of the fixed list.
C22_SubjectInList ==
  kpc = "returned" =>
    (analysis.subject.t = "str" /\ analysis.subject.v \in SubjectList)

(***************************************************************************)
(* Claims about textToSpeechFile                                           *)
(***************************************************************************)
LongText == Utf8Length(ttsText) > TtsByteLimit

NotWhitespace(c) == c \notin Whitespace

\* a string without its whitespace
Strip(str) == SelectSeq(str, NotWhitespace)

\* the 0-based positions of the calls that succeeded, in call order
RECURSIVE OkParts(_)
OkParts(k) ==
  IF k > Len(ttsCalls) THEN <<>>
  ELSE (IF ttsCalls[k].outcome = "ok" THEN <<k - 1>> ELSE <<>>) \o OkParts(k + 1)

\* the sum of the durations reported for the calls that succeeded
RECURSIVE OkDuration(_)
OkDuration(k) ==
  IF k > Len(ttsCalls) THEN 0
  ELSE (IF ttsCalls[k].outcome = "ok"
        THEN DurationOrZero(ttsCalls[k].duration) ELSE 0) + OkDuration(k + 1)

\* what C19 says of every text, whatever its whitespace: the segments are
\* within the byte limit, are the text in order, and are called in order
SegmentsInOrderWithinLimit ==
  /\ \A k \in 1..Len(ttsSegments) : Utf8Length(ttsSegments[k]) <= TtsByteLimit
  /\ Strip(ConcatAll(ttsSegments)) = Strip(ttsText)
  /\ \A k \in 1..Len(ttsCalls) :
       /\ ttsCalls[k].text = ttsSegments[k]
       /\ ttsCalls[k].bytes <= TtsByteLimit
  /\ ttsReturn.status = "returned" => ttsReturn.parts = OkParts(1)

SingleCall ==
  /\ Len(ttsCalls) = 1
  /\ ttsCalls[1].text = ttsText
  /\ ttsSegments = <<>>

\* C19 as stated: one call for a text of at most 1024 bytes; a longer text
\* gives at least 2 segments, each of at most 1024 bytes, called and
\* concatenated in text order.
C19_Original ==
  tpc # "start" =>
    IF LongText
    THEN Len(ttsSegments) >= 2 /\ SegmentsInOrderWithinLimit
    ELSE SingleCall

\* C19 amended: one call for a text of at most 1024 bytes; a longer text is
\* cut into segments of at most 1024 bytes each, which are the text in
\* order (whitespace at the cuts dropped) and are called and concatenated
\* in that order; there are at least 2 of them when the text is still
\* longer than 1024 bytes once its leading and trailing whitespace is
\* removed.
C19_SegmentsWithinLimit ==
  tpc # "start" =>
    IF LongText
    THEN /\ SegmentsInOrderWithinLimit
         /\ Utf8Length(Trim(ttsText)) > TtsByteLimit => Len(ttsSegments) >= 2
    ELSE SingleCall

\* C19 witness: a long text cut into at least three segments, one of them
\* by the forced split, all synthesized and concatenated
C19_Witness ==
  /\ LongText
  /\ tpc = "returned"
  /\ Len(ttsSegments) >= 3
  /\ \E k \in 1..Len(ttsSegments) : Len(ttsSegments[k]) = SegmentMaxLength
  /\ Len(ttsReturn.parts) = Len(ttsSegments)

\* what C20 says of the segment loop: every segment is called whatever
\* happened to the ones before it, and a call that returns reports the sum
\* of the durations of the segments that succeeded
SegmentsAllTried ==
  /\ tpc \in {"returned", "rejected"} => Len(ttsCalls) = Len(ttsSegments)
  /\ tpc = "returned" =>
       /\ OkParts(1) # <<>>
       /\ ttsReturn.parts = OkParts(1)
       /\ ttsReturn.duration = OkDuration(1)

\* C20 as stated: a failed segment is skipped and the others are still
\* synthesized; the call fails only if every segment failed; the duration
\* returned is the sum over the segments that succeeded.
C20_Original ==
  LongText =>
    /\ SegmentsAllTried
    /\ tpc = "rejected" => OkParts(1) = <<>>

\* C20 amended: a failed segment is skipped and the others are still
\* synthesized; the call fails if every segment failed, and otherwise only
\* if the concatenation by ffmpeg failed (the segment files are removed
\* either way); the duration returned is the sum over the segments that
\* succeeded.
C20_SkipFailedSegments ==
  LongText =>
    /\ SegmentsAllTried
    /\ (tpc \in {"returned", "rejected"} /\ OkParts(1) = <<>>) =>
         tpc = "rejected"
    /\ (tpc = "rejected" /\ OkParts(1) # <<>>) =>
         (tsi = Len(ttsSegments) /\ ttsDisk = {})
    /\ tpc = "returned" => ttsDisk = {}

\* C20 witness: a call that returned although its first segment failed,
\* with two later segments synthesized and their durations added
C20_Witness ==
  /\ LongText
  /\ tpc = "returned"
  /\ ttsCalls[1].outcome = "failed"
  /\ Len(OkParts(1)) >= 2
  /\ ttsReturn.duration = 3000

(***************************************************************************)
(* Claims about one processTimeMarker call                                 *)
(***************************************************************************)
\* the call has ended, and its directories had been created
EndedAfterMkdir == ppc \in {"returned", "rejected"} /\ pErr # "mkdir"

\* C11: a slide whose image generation failed has a placeholder image file
\* at its image path, its image result has success = false and an error
\* message, and the failure is not thrown out of the slide loop (the tts
\* sub-task settles and the loop goes on).
C11_PlaceholderOnImageFailure ==
  /\ \A k \in 1..Len(pSlideImages) :
       ~pSlideImages[k].success =>
         /\ pSlideImages[k].error # "none"
         /\ InOutputDir(pSlideImages[k].path) \in pFiles
  /\ Len(pSlideAudios) = Len(pSlideImages)
  /\ ppc = "thrown" => pErr # "image"

StageOrder ==
  <<StageEvent("asr", "processing"), StageEvent("asr", "completed"),
    StageEvent("analyze", "processing"), StageEvent("analyze", "completed"),
    StageEvent("script", "processing"), StageEvent("script", "completed"),
    StageEvent("images", "processing"), StageEvent("tts", "processing"),
    StageEvent("images", "completed"), StageEvent("tts", "completed"),
    StageEvent("video", "processing"), StageEvent("video", "completed")>>

\* C27: the stage events of a marker are a prefix of the fixed order asr,
\* analyze, script, images / tts, video, each stage's processing before its
\* completed and after the completed of the stage before it, none skipped or
\* repeated; a marker that returns has emitted all of them, a marker that
\* failed has not emitted the last one, and once the marker has failed or
\* returned no further stage event is emitted.
C27_StagesInOrder ==
  /\ [](/\ Len(pStages) <= Len(StageOrder)
        /\ pStages = SubSeq(StageOrder, 1, Len(pStages))
        /\ ppc = "returned" => pStages = StageOrder
        /\ ppc \in {"thrown", "rejected"} =>
             /\ Len(pStages) < Len(StageOrder)
             /\ Len(pStages) > 0 => pStages[Len(pStages)].status = "processing")
  /\ [][(ppc \in {"thrown", "rejected", "returned"}) => (pStages' = pStages)]_vars

\* C27 witness: the marker failed in the video stage, after every stage
\* before it completed for two slides
C27_Witness ==
  /\ ppc = "rejected"
  /\ Len(pSlides) = 2
  /\ pStages = SubSeq(StageOrder, 1, 11)

\* processTimeMarker's calls of the image and speech boundaries so far
SlideCalls ==
  {k \in 1..Len(pCalls) :
     pCalls[k].fn \in {"generateImageToFile", "textToSpeechFile"}}

\* the number of boundary calls started and not settled: a call is settled
\* when its sub-task has resolved, with the boundary's result or with the
\* fallback
CallsInFlight ==
  Cardinality(SlideCalls)
    - (Len(pSlideImages) + Len(pSlideAudios)
       + (IF pImg.state = "settled" THEN 1 ELSE 0)
       + (IF pTts.state = "settled" THEN 1 ELSE 0))

\* C28: the image and speech calls of slide i + 1 start only after both
\* sub-tasks of slide i have settled and the 500 ms delay after slide i has
\* elapsed; at most two boundary calls, one image and one speech call of the
\* same slide, are in flight; no delay follows the last slide.
C28_SlidesOneAtATime ==
  /\ \A k \in SlideCalls :
       /\ pCalls[k].a > 0 =>
            /\ \E j \in 1..(k - 1) :
                 pCalls[j] = [fn |-> "setTimeout", a |-> 500,
                              b |-> pCalls[k].a - 1]
            /\ Len(pSlideImages) >= pCalls[k].a
            /\ Len(pSlideAudios) >= pCalls[k].a
       /\ \A j \in SlideCalls :
            (j < k /\ pCalls[j].fn = pCalls[k].fn) => pCalls[j].a < pCalls[k].a
  /\ CallsInFlight \in 0..2
  /\ CallsInFlight > 0 =>
       /\ ppc = "slide_wait"
       /\ Len(pSlideImages) = psi
       /\ Len(pSlideAudios) = psi
  /\ \A k \in 1..Len(pCalls) :
       pCalls[k].fn = "setTimeout" =>
         /\ pCalls[k].b < Len(pSlides) - 1
         /\ Len(pSlideImages) > pCalls[k].b
         /\ Len(pSlideAudios) > pCalls[k].b
  /\ ppc = "delay" => psi < Len(pSlides) - 1

\* C28 witness: both calls of the second slide are in flight, after the
\* first slide's speech call failed and was replaced by silence
C28_Witness ==
  /\ ppc = "slide_wait"
  /\ psi = 1
  /\ pImg.state = "inflight"
  /\ pTts.state = "inflight"
  /\ CallsInFlight = 2
  /\ ~pSlideAudios[1].success

\* C26: for a slide with a non-empty script the subtitles of the result are
\* the cues generateSubtitlesFromScript computes from the script and the
\* duration of the slide's audio, also when the slide carries an
\* author-provided list: the same cues, by the same priority, as the video.
C26_ResultSubtitlesFromScript ==
  ppc = "returned" =>
    \A k \in 1..Len(pSlides) :
      pSlides[k].script # <<>> =>
        /\ pResult.slides[k].subtitles.source = "script"
        /\ Len(pResult.slides[k].subtitles.cues)
             = Len(generateSubtitlesFromScript(
                     pSlides[k].script, R(pSlideAudios[k].duration, 1000)))

C13_ProgressMonotone ==
  LET s == ProgressReported
  IN \A k \in 1..Len(s) :
       /\ s[k] \in 0..100
       /\ k > 1 => s[k - 1] <= s[k]
       /\ s[k] = 100 =>
            /\ k = Len(s)
            /\ ppc = "returned"
            /\ pResult.video # NoPath

\* C13 witness: a call that returned after a transcription of more than one
\* batch of chunks and two slides, and reported 100 last
C13_Witness ==
  /\ ppc = "returned"
  /\ pMarkerTime = 300
  /\ pAudioDuration = 185
  /\ Len(pSlides) = 2
  /\ Len(pProgress) >= 12
  /\ pProgress[Len(pProgress)] = 100

\* C15: when ffmpeg is not installed the call still returns success = true
\* with its slides and a null video (a failure of mkdir or of ffprobe set
\* aside).
C15_NoToolkitStillSucceeds ==
  (~pToolkit /\ ppc \in {"returned", "rejected"}
     /\ pErr \notin {"mkdir", "ffprobe"}) =>
    /\ ppc = "returned"
    /\ pResult.success
    /\ pResult.video = NoPath

\* the directories and files of the other marker are as they were
SiblingsUntouched ==
  /\ SiblingDirs \subseteq pDirs
  /\ {f \in pFiles : f.dir \in SiblingDirs} = SiblingFiles

\* C18 as stated: once the call has ended after creating its directories,
\* its temporary directory is gone and the other marker's directories are
\* untouched.
C18_Original ==
  EndedAfterMkdir => (TempDir \notin pDirs /\ SiblingsUntouched)

\* C18 amended: once the call has ended after creating its directories,
\* cleanupTempDir has been called; the temporary directory and its files are
\* gone unless the removal itself failed, in which case the call ends the
\* same way with the directory left behind; the other marker's directories
\* and the call's output directory are untouched at all times.
C18_CleanupAttempted ==
  /\ EndedAfterMkdir =>
       /\ pCleanup \in {"removed", "failed"}
       /\ pCleanup = "removed" =>
            /\ TempDir \notin pDirs
            /\ \A f \in pFiles : f.dir # TempDir
       /\ pCleanup = "failed" => TempDir \in pDirs
       /\ OutputDir \in pDirs
  /\ ppc \in {"returned", "rejected"} =>
       (ppc = "returned") = (pErr = "none")
  /\ SiblingsUntouched

\* C18 witness: a call rejected after the segment was cut, with the
\* temporary directory and the segment file removed
C18_Witness ==
  /\ ppc = "rejected"
  /\ pErr = "video"
  /\ pCleanup = "removed"
  /\ TempDir \notin pDirs
  /\ SegmentFile \notin pFiles


\* C34: for every marker >= 0 and every audio duration > 0 the window has
\* startTime <= endTime, so no extractAudioSegment or transcribeAudio call
\* is passed a negative duration. Refuted by a marker more than 300 s past
\* the end of the source: Math.max(0, 600 - 300) = 300 > Math.min(185, 780)
C34_WindowNeverNegative ==
  /\ ppc \notin {"idle", "mkdir", "probe"} =>
       pWindow.startTime <= pWindow.endTime
  /\ \A k \in 1..Len(pCalls) :
       pCalls[k].fn \in {"extractAudioSegment", "transcribeAudio"} =>
         pCalls[k].b >= 0


\* final_video.mp4 of the marker's output directory
FinalVideoFile == VideoFileOnDisk([path |-> OutputPath])

\* C35: whenever the result of a marker carries a non-null video reference,
\* final_video.mp4 exists in the marker's output directory, on every path
\* including the one where the subtitle burn-in failed. Refuted: when the
\* ffmpeg of addSubtitles fails the result names the merged video of
\* config.tempDir and final_video.mp4 is never written
C35_VideoReferenceHasFile ==
  (ppc = "returned" /\ pResult.video # NoPath) => FinalVideoFile \in pFiles


\* C36: after the slide synthesis of a marker every slide's recorded image
\* path and audio path name an existing file, also for a placeholder image
\* and a silent track, so synthesizeVideo is never handed a slide whose
\* input file is missing. Refuted: createPlaceholderImage and
\* createSilentAudio return the path also when they wrote nothing
C36_SlideInputsExist ==
  /\ ppc \in {"slides", "delay", "video_wait"} =>
       \A k \in 1..Len(pSlideImages) :
         /\ InOutputDir(pSlideImages[k].path) \in pFiles
         /\ InOutputDir(pSlideAudios[k].path) \in pFiles
  /\ ppc = "video_wait" =>
       \A k \in 1..Len(vSlides) :
         vSlides[k].imageExists /\ vSlides[k].audioExists


\* C37: in the global cue list of synthesizeVideo every cue of slide i
\* starts at or after the offset of slide i and ends at or before that
\* offset plus the clip duration of slide i, so the cues of different slides
\* do not overlap and the list is ordered by start. Refuted: a script of
\* two sentences on a 2 s clip gets two cues of 1.5 s (the floor of
\* generateSubtitlesFromScript), the second ending 1 s into the next slide
C37_CuesInsideTheirSlide ==
  /\ \A k \in 1..Len(videoSubtitles) :
       LET c == videoSubtitles[k]
       IN /\ RLe(SlideOffset(c.slide), c.start)
          /\ RLe(CueEnd(c), RAdd(SlideOffset(c.slide), clipDurations[c.slide + 1]))
  /\ \A j, k \in 1..Len(videoSubtitles) :
       j < k => RLe(videoSubtitles[j].start, videoSubtitles[k].start)
  /\ \A j, k \in 1..Len(videoSubtitles) :
       videoSubtitles[j].slide < videoSubtitles[k].slide =>
         RLe(CueEnd(videoSubtitles[j]), videoSubtitles[k].start)


\* the temporary file names a task has built
TempNamesOf(t) ==
  {segmentFiles[t][k] : k \in 1..Len(segmentFiles[t])}
    \cup ({mergedFile[t]} \ {NoTempName})

\* C38: two tasks processed at the same time never write over or delete
\* each other's temporary files, and the names they build are distinct even
\* when both read the same clock value. Refuted: the names are built from
\* Date.now() and the chunk index only, in the shared config.tempDir
C38_TempFilesNeverShared ==
  /\ interference = {}
  /\ \A t, u \in CTasks : t # u => TempNamesOf(t) \cap TempNamesOf(u) = {}


\* C39: once synthesizeVideo has ended, resolved or rejected, none of the
\* per-slide clips it rendered is left in config.tempDir. Refuted: the clips
\* are unlinked only at the end of the path that resolves; a failed clip or
\* a failed concatenation rejects with the earlier clips still on disk
C39_NoClipsRemain ==
  vpc \in {"returned", "rejected"} =>
    \A f \in videoFiles : f.path.kind # "slide_clip"


\* C40: after a task was deleted through the DELETE endpoint the output
\* artifacts of its markers no longer exist and the file endpoint no longer
\* serves them under the ids its results returned. Refuted: the endpoint
\* removes config.outputDir/<id of the task>, while every marker wrote to
\* config.outputDir/<its own generateId()>
C40_DeletedArtifactsGone ==
  /\ \A f \in outputFiles : f.dir \notin deletedMarkers
  /\ servedAfterDelete = {}

====
